---- MODULE Spec2Model ----
(***************************************************************************)
(* A model of simp_sexp: the S-expression parser (Sexp.__init__), the      *)
(* scalar classifier (parse_value), the serializer (Sexp.to_str), the      *)
(* pretty-printer (prettify_sexp) and the list mutators of class Sexp.     *)
(*                                                                         *)
(* A text is a sequence of one-character strings.  A Python value is a     *)
(* record tagged by its type:                                              *)
(*   [t |-> "int",   v |-> n]          an int                              *)
(*   [t |-> "float", v |-> [neg, m, e, special]]                           *)
(*                                     a float, m * 10^e, m without        *)
(*                                     trailing zeros; special is "inf"    *)
(*                                     or "nan" for those, "" otherwise    *)
(*   [t |-> "str",   v |-> chars]      a str                               *)
(*   [t |-> "list",  v |-> elements]   a plain Python list                 *)
(*   [t |-> "sexp",  v |-> elements]   a Sexp (the list subclass)          *)
(***************************************************************************)
EXTENDS Integers, Sequences, FiniteSets, TLC

(***************************************************************************)
(* Bounds of the model.                                                    *)
(***************************************************************************)
\* Longest text handed to Sexp(text).
MaxLen == 4
\* Longest text handed to prettify_sexp and pretty-printed twice.
MaxPrettyLen == 5
\* Longest text pretty-printed, or parsed and serialized, under every configuration.
MaxSerialLen == 4
\* Number of mutator calls made on one Sexp object.
MaxOps == 2

\* Largest number of nodes (lists and scalars, the root included) of a tree
\* handed to to_str.
MaxNodes == 4

\* Largest number of nodes of a tree searched exhaustively, and largest
\* max_depth given to search.
MaxSearchNodes == 4
MaxDepthArg == 2
\* Longest text whose scans are followed one iteration at a time.
MaxScanLen == 4
\* Most elements after the tag of the tree that search and to_str are called
\* on twice.
MaxPureWidth == 2

\* Longest token handed to parse_value.
MaxTokenLen == 3

\* The characters the tokens handed to parse_value are drawn from.
ValueAlphabet == {"0", "1", "-", ".", "e", "_", "x", "b", "o", "n", "a", "i", "f"}
\* The characters the texts handed to the parser are drawn from.
ParseAlphabet == {"(", ")", " ", "\"", "'", "\\", "a", "1", "."}
\* The characters the texts handed to the pretty-printer are drawn from.
PrettyAlphabet == {"(", ")", " ", "\"", "\\", "a", "\n", "\r"}
\* The values of break_inc and spaces_per_level the pretty-printer is run with.
BreakIncs == {-1, 0, 1, 2}
SpacesPerLevel == {1, 2}

\* Every text of at most n characters of alphabet A.
Texts(A, n) == UNION {[1..k -> A] : k \in 0..n}

(***************************************************************************)
(* Characters and strings (Python str methods used by the source).         *)
(***************************************************************************)
\* str.isspace() of one character.
IsSpace(c) == c \in {" ", "\t", "\n", "\r"}

\* str.strip(): leading and trailing whitespace removed.
RECURSIVE LStrip(_)
LStrip(s) == IF s # <<>> /\ IsSpace(Head(s)) THEN LStrip(Tail(s)) ELSE s

RECURSIVE RStrip(_)
RStrip(s) ==
    IF s # <<>> /\ IsSpace(s[Len(s)]) THEN RStrip(SubSeq(s, 1, Len(s) - 1)) ELSE s

Strip(s) == RStrip(LStrip(s))

\* " ".join(seq) of a sequence of texts.
RECURSIVE JoinSpace(_)
JoinSpace(seq) ==
    IF seq = <<>> THEN <<>>
    ELSE IF Len(seq) = 1 THEN seq[1]
    ELSE seq[1] \o <<" ">> \o JoinSpace(Tail(seq))

\* ' ' * n
RECURSIVE Spaces(_)
Spaces(n) == IF n <= 0 THEN <<>> ELSE <<" ">> \o Spaces(n - 1)

\* sexp.replace('\n', '')
RECURSIVE RemoveNewlines(_)
RemoveNewlines(s) ==
    IF s = <<>> THEN <<>>
    ELSE IF Head(s) = "\n" THEN RemoveNewlines(Tail(s))
    ELSE <<Head(s)>> \o RemoveNewlines(Tail(s))

(***************************************************************************)
(* Python values.                                                          *)
(***************************************************************************)
PyInt(n) == [t |-> "int", v |-> n]
PyFloat(neg, m, e) ==
    [t |-> "float", v |-> [neg |-> neg, m |-> m, e |-> e, special |-> ""]]
\* float('inf'), float('-inf') and float('nan')
PyInf(neg) == [t |-> "float", v |-> [neg |-> neg, m |-> 0, e |-> 0, special |-> "inf"]]
PyNan == [t |-> "float", v |-> [neg |-> FALSE, m |-> 0, e |-> 0, special |-> "nan"]]
PyStr(s) == [t |-> "str", v |-> s]
PyList(elems) == [t |-> "list", v |-> elems]
PySexp(elems) == [t |-> "sexp", v |-> elems]

\* isinstance(x, list): a Sexp is a list too.
IsList(x) == x.t \in {"list", "sexp"}
\* isinstance(x, Sexp)
IsSexp(x) == x.t = "sexp"
\* isinstance(x, (int, float))
IsNum(x) == x.t \in {"int", "float"}

\* What a call gives its caller: the value returned, or the exception raised
\* (and then no value).
NoTree == [t |-> "none", v |-> <<>>]
Returned(tree) == [error |-> "none", self |-> tree]
Raised(exc) == [error |-> exc, self |-> NoTree]

DigitChars == <<"0", "1", "2", "3", "4", "5", "6", "7", "8", "9">>
IsDigit(c) == \E d \in 1..10 : DigitChars[d] = c
DigitVal(c) == (CHOOSE d \in 1..10 : DigitChars[d] = c) - 1

AllDigits(s) == \A k \in 1..Len(s) : IsDigit(s[k])

\* The value of a run of decimal digits (0 for the empty run).
RECURSIVE DigitsVal(_)
DigitsVal(s) ==
    IF s = <<>> THEN 0
    ELSE 10 * DigitsVal(SubSeq(s, 1, Len(s) - 1)) + DigitVal(s[Len(s)])

\* The decimal digits of a natural number.
RECURSIVE NatToStr(_)
NatToStr(n) ==
    IF n < 10 THEN <<DigitChars[n + 1]>>
    ELSE NatToStr(n \div 10) \o <<DigitChars[(n % 10) + 1]>>

HasSign(s) == s # <<>> /\ Head(s) \in {"+", "-"}
Unsigned(s) == IF HasSign(s) THEN Tail(s) ELSE s
IsNegative(s) == s # <<>> /\ Head(s) = "-"

\* The digits of the bases int(s, base=0) detects, lower and upper case.
HexLower == <<"0", "1", "2", "3", "4", "5", "6", "7", "8", "9",
              "a", "b", "c", "d", "e", "f">>
HexUpper == <<"0", "1", "2", "3", "4", "5", "6", "7", "8", "9",
              "A", "B", "C", "D", "E", "F">>

\* c is a digit of the given base (2, 8, 10 or 16).
IsBaseDigit(c, base) == \E d \in 1..base : HexLower[d] = c \/ HexUpper[d] = c
BaseDigitVal(c, base) ==
    (CHOOSE d \in 1..base : HexLower[d] = c \/ HexUpper[d] = c) - 1

\* Digits of the base with single underscores between them.
Underscored(d, base) ==
    /\ d # <<>>
    /\ \A k \in 1..Len(d) : IsBaseDigit(d[k], base) \/ d[k] = "_"
    /\ d[1] # "_"
    /\ d[Len(d)] # "_"
    /\ \A k \in 1..(Len(d) - 1) : ~(d[k] = "_" /\ d[k + 1] = "_")

RECURSIVE RemoveUnderscores(_)
RemoveUnderscores(s) ==
    IF s = <<>> THEN <<>>
    ELSE IF Head(s) = "_" THEN RemoveUnderscores(Tail(s))
    ELSE <<Head(s)>> \o RemoveUnderscores(Tail(s))

\* The value of a run of digits of the base (0 for the empty run).
RECURSIVE BaseVal(_, _)
BaseVal(s, base) ==
    IF s = <<>> THEN 0
    ELSE base * BaseVal(SubSeq(s, 1, Len(s) - 1), base) + BaseDigitVal(s[Len(s)], base)

\* The base a 0x / 0o / 0b prefix announces, 10 without one.
PrefixBase(d) ==
    IF Len(d) >= 2 /\ d[1] = "0"
    THEN CASE d[2] \in {"x", "X"} -> 16
           [] d[2] \in {"o", "O"} -> 8
           [] d[2] \in {"b", "B"} -> 2
           [] OTHER -> 10
    ELSE 10

\* The digits after the prefix; one underscore may follow the prefix.
AfterPrefix(d) ==
    LET r == SubSeq(d, 3, Len(d))
    IN IF r # <<>> /\ r[1] = "_" THEN Tail(r) ELSE r

\* int(s, base=0) succeeds: surrounding whitespace, an optional sign, then
\* either a prefix and digits of its base, or decimal digits that do not
\* start with a zero unless they are all zeros.
IsIntLiteral(s) ==
    LET d == Unsigned(Strip(s))
        base == PrefixBase(d)
    IN IF base # 10 THEN Underscored(AfterPrefix(d), base)
       ELSE /\ Underscored(d, 10)
            /\ (d[1] # "0" \/ \A k \in 1..Len(d) : d[k] \in {"0", "_"})

IntValue(s) ==
    LET d == Unsigned(Strip(s))
        base == PrefixBase(d)
        n == IF base # 10 THEN BaseVal(RemoveUnderscores(AfterPrefix(d)), base)
             ELSE BaseVal(RemoveUnderscores(d), 10)
    IN IF IsNegative(Strip(s)) THEN 0 - n ELSE n

\* str.lower() (ASCII letters).
AsciiUpper == <<"A", "B", "C", "D", "E", "F", "G", "H", "I", "J", "K", "L", "M",
                "N", "O", "P", "Q", "R", "S", "T", "U", "V", "W", "X", "Y", "Z">>
AsciiLower == <<"a", "b", "c", "d", "e", "f", "g", "h", "i", "j", "k", "l", "m",
                "n", "o", "p", "q", "r", "s", "t", "u", "v", "w", "x", "y", "z">>
LowerChar(c) ==
    IF \E k \in 1..26 : AsciiUpper[k] = c
    THEN AsciiLower[CHOOSE k \in 1..26 : AsciiUpper[k] = c]
    ELSE c
Lower(s) == [k \in 1..Len(s) |-> LowerChar(s[k])]

IsInfWord(d) ==
    Lower(d) \in {<<"i", "n", "f">>, <<"i", "n", "f", "i", "n", "i", "t", "y">>}
IsNanWord(d) == Lower(d) = <<"n", "a", "n">>

\* The index of the first character of d that is in set S (Len(d) + 1 when
\* there is none).
FirstIn(d, S) ==
    IF \E k \in 1..Len(d) : d[k] \in S
    THEN CHOOSE k \in 1..Len(d) : d[k] \in S /\ \A j \in 1..(k - 1) : d[j] \notin S
    ELSE Len(d) + 1

\* The parts of an unsigned decimal float literal: the digits before and
\* after the point, and the exponent after e / E ("none" when absent).
FloatParts(d) ==
    LET pe == FirstIn(d, {"e", "E"})
        mant == SubSeq(d, 1, pe - 1)
        pp == FirstIn(mant, {"."})
    IN [whole |-> SubSeq(mant, 1, pp - 1),
        point |-> pp <= Len(mant),
        frac |-> SubSeq(mant, pp + 1, Len(mant)),
        has_exp |-> pe <= Len(d),
        exp |-> SubSeq(d, pe + 1, Len(d))]

\* float(s) succeeds: surrounding whitespace, an optional sign, then inf,
\* infinity or nan, or digits with at most one point (a digit on at least
\* one side of it) and an optional exponent.
IsFloatLiteral(s) ==
    LET d == Unsigned(Strip(s))
        p == FloatParts(d)
    IN \/ IsInfWord(d)
       \/ IsNanWord(d)
       \/ /\ p.whole # <<>> \/ p.frac # <<>>
          /\ p.whole # <<>> => Underscored(p.whole, 10)
          /\ p.frac # <<>> => Underscored(p.frac, 10)
          /\ p.has_exp => Underscored(Unsigned(p.exp), 10)

\* m * 10^e with the trailing zeros of m moved into e (0 is 0 * 10^0).
RECURSIVE Normalize(_, _)
Normalize(m, e) ==
    IF m = 0 THEN [m |-> 0, e |-> 0]
    ELSE IF m % 10 = 0 THEN Normalize(m \div 10, e + 1)
    ELSE [m |-> m, e |-> e]

\* 10^n
RECURSIVE Pow10(_)
Pow10(n) == IF n <= 0 THEN 1 ELSE 10 * Pow10(n - 1)

\* The first nine significant digits of m (m # 0, at most nine digits).
Lead9(m) == m * Pow10(9 - Len(NatToStr(m)))

\* m * 10^e is at or above the rounding boundary to infinity of a double,
\* (2 - 2^-53) * 2^1023 = 1.797693134862315807...e308.
Overflows(m, e) ==
    LET x == Len(NatToStr(m)) + e - 1
    IN m # 0 /\ (x > 308 \/ (x = 308 /\ Lead9(m) > 179769313))

\* m * 10^e is at or below the rounding boundary to zero of a double,
\* 2^-1075 = 2.4703282292...e-324.
Underflows(m, e) ==
    LET x == Len(NatToStr(m)) + e - 1
    IN m # 0 /\ (x < -324 \/ (x = -324 /\ Lead9(m) <= 247032822))

\* float(s) of a float literal.  A finite result is kept as its decimal
\* value, which is what repr() gives back for up to 15 significant digits.
FloatValue(s) ==
    LET t == Strip(s)
        d == Unsigned(t)
        p == FloatParts(d)
        whole == RemoveUnderscores(p.whole)
        frac == RemoveUnderscores(p.frac)
        ev == IF p.has_exp
              THEN (IF IsNegative(p.exp) THEN -1 ELSE 1)
                   * DigitsVal(RemoveUnderscores(Unsigned(p.exp)))
              ELSE 0
        n == Normalize(DigitsVal(whole \o frac), ev - Len(frac))
    IN IF IsInfWord(d) THEN PyInf(IsNegative(t))
       ELSE IF IsNanWord(d) THEN PyNan
       ELSE IF Overflows(n.m, n.e) THEN PyInf(IsNegative(t))
       ELSE IF Underflows(n.m, n.e) THEN PyFloat(IsNegative(t), 0, 0)
       ELSE PyFloat(IsNegative(t), n.m, n.e)

\* str(x) of an int.
IntToStr(n) == IF n < 0 THEN <<"-">> \o NatToStr(0 - n) ELSE NatToStr(n)

RECURSIVE Zeros(_)
Zeros(n) == IF n <= 0 THEN <<>> ELSE <<"0">> \o Zeros(n - 1)

\* str(x) of a float (repr): positional notation when the decimal exponent x
\* of the first digit has -4 <= x < 16, scientific notation otherwise.
FloatToStr(f) ==
    LET D == NatToStr(f.m)
        n == Len(D)
        x == n + f.e - 1
        sign == IF f.neg THEN <<"-">> ELSE <<>>
        body ==
            IF f.special = "inf" THEN <<"i", "n", "f">>
            ELSE IF f.special = "nan" THEN <<"n", "a", "n">>
            ELSE IF f.m = 0 THEN <<"0", ".", "0">>
            ELSE IF x < -4 \/ x >= 16 THEN
                <<D[1]>> \o (IF n > 1 THEN <<".">> \o Tail(D) ELSE <<>>)
                \o <<"e">> \o (IF x < 0 THEN <<"-">> ELSE <<"+">>)
                \o (LET a == IF x < 0 THEN 0 - x ELSE x
                    IN IF a < 10 THEN <<"0">> \o NatToStr(a) ELSE NatToStr(a))
            ELSE IF f.e >= 0 THEN D \o Zeros(f.e) \o <<".", "0">>
            ELSE IF n > 0 - f.e THEN
                SubSeq(D, 1, n + f.e) \o <<".">> \o SubSeq(D, n + f.e + 1, n)
            ELSE <<"0", ".">> \o Zeros((0 - f.e) - n) \o D
    IN sign \o body

\* str(item) of a scalar.
Str(x) ==
    CASE x.t = "int" -> IntToStr(x.v)
      [] x.t = "float" -> FloatToStr(x.v)
      [] OTHER -> x.v

\* int(s, base=0): the int, or ValueError.
IntCall(s) ==
    IF IsIntLiteral(s) THEN Returned(PyInt(IntValue(s))) ELSE Raised("ValueError")

\* float(s): the float, or ValueError.
FloatCall(s) ==
    IF IsFloatLiteral(s) THEN Returned(FloatValue(s)) ELSE Raised("ValueError")

\* Mutant of ParseValueCall: float is tried before int.
ParseValueFloatFirst(input_str) ==
    IF input_str = <<>> THEN Returned(PyStr(input_str))
    ELSE IF FloatCall(input_str).error # "ValueError" THEN FloatCall(input_str)
    ELSE IF IntCall(input_str).error # "ValueError" THEN IntCall(input_str)
    ELSE Returned(PyStr(input_str))

\* A call of parse_value: the empty string as it is; else int, and on
\* ValueError float, and on ValueError the string itself.  Only ValueError is
\* caught.
ParseValueCall(input_str) ==
    IF input_str = <<>> THEN Returned(PyStr(input_str))
    ELSE IF IntCall(input_str).error # "ValueError" THEN IntCall(input_str)
    ELSE IF FloatCall(input_str).error # "ValueError" THEN FloatCall(input_str)
    ELSE Returned(PyStr(input_str))

\* The value parse_value returns.
parse_value(input_str) == ParseValueCall(input_str).self

(***************************************************************************)
(* Nested lists.  A list inside a tree is named by its path: the indices   *)
(* (from 1) that lead to it from the root.  The parser's stack holds       *)
(* references to lists that are nested in one another; here it holds their *)
(* paths, so that an append through the reference changes the tree.        *)
(***************************************************************************)
RECURSIVE NodeAt(_, _)
NodeAt(tree, path) ==
    IF path = <<>> THEN tree ELSE NodeAt(tree.v[Head(path)], Tail(path))

\* list.append(node) on the list at path.
RECURSIVE AppendAt(_, _, _)
AppendAt(tree, path, node) ==
    IF path = <<>> THEN [tree EXCEPT !.v = Append(@, node)]
    ELSE [tree EXCEPT !.v[Head(path)] = AppendAt(@, Tail(path), node)]

Top(stack) == stack[Len(stack)]

(***************************************************************************)
(* The parser: Sexp.__init__ given a string.  A parser state holds the     *)
(* locals of the scan; i counts the characters consumed, so the current    *)
(* character is s_expr[i + 1].                                             *)
(***************************************************************************)
ParserStart(text) ==
    [s_expr |-> text,
     result |-> PyList(<<>>),
     stack |-> << <<>> >>,
     current_token |-> <<>>,
     in_single_quote |-> FALSE,
     in_double_quote |-> FALSE,
     quote_content |-> <<>>,
     i |-> 0]

\* The character under the scan index, and the one after it.
Char(st) == st.s_expr[st.i + 1]
NextChar(st) == st.s_expr[st.i + 2]
InQuote(st) == st.in_single_quote \/ st.in_double_quote

\* if current_token.strip(): stack[-1].append(parse_value(...)); current_token = ""
Flush(st) ==
    IF Strip(st.current_token) # <<>>
    THEN [st EXCEPT
            !.result = AppendAt(@, Top(st.stack), parse_value(Strip(st.current_token))),
            !.current_token = <<>>]
    ELSE st

\* Which branch of the loop body the current character takes.
Branch(st) ==
    LET c == Char(st) IN
    IF c = "\\" /\ st.i + 1 < Len(st.s_expr) THEN "escape"
    ELSE IF c = "'" /\ ~st.in_double_quote /\ ~st.in_single_quote THEN "open_single"
    ELSE IF c = "\"" /\ ~st.in_single_quote /\ ~st.in_double_quote THEN "open_double"
    ELSE IF c = "'" /\ st.in_single_quote THEN "close_single"
    ELSE IF c = "\"" /\ st.in_double_quote THEN "close_double"
    ELSE IF InQuote(st) THEN "in_quote"
    ELSE IF c = "(" THEN "open_paren"
    ELSE IF c = ")" THEN "close_paren"
    ELSE IF IsSpace(c) THEN "space"
    ELSE "other"

\* Mutant of EscapeStep: inside a quote the backslash is always kept.
EscapeKeepsBackslash(st) ==
    LET c == Char(st)
        n == NextChar(st)
    IN [(IF InQuote(st)
         THEN [st EXCEPT !.quote_content = @ \o <<c, n>>]
         ELSE [st EXCEPT !.current_token = @ \o <<c, n>>])
        EXCEPT !.i = @ + 2]

\* A backslash with a character after it: both are consumed.
EscapeStep(st) ==
    LET c == Char(st)
        n == NextChar(st)
    IN [(IF InQuote(st)
         THEN IF n \in {"'", "\"", "\\"}
              THEN [st EXCEPT !.quote_content = @ \o <<n>>]
              ELSE [st EXCEPT !.quote_content = @ \o <<c, n>>]
         ELSE [st EXCEPT !.current_token = @ \o <<c, n>>])
        EXCEPT !.i = @ + 2]

OpenSingleStep(st) ==
    [Flush(st) EXCEPT !.in_single_quote = TRUE, !.quote_content = <<>>, !.i = @ + 1]

OpenDoubleStep(st) ==
    [Flush(st) EXCEPT !.in_double_quote = TRUE, !.quote_content = <<>>, !.i = @ + 1]

CloseSingleStep(st) ==
    [st EXCEPT !.in_single_quote = FALSE,
               !.result = AppendAt(@, Top(st.stack), PyStr(st.quote_content)),
               !.i = @ + 1]

\* Mutant of CloseDoubleStep: the quoted content is classified like a bare token.
CloseDoubleClassified(st) ==
    [st EXCEPT !.in_double_quote = FALSE,
               !.result = AppendAt(@, Top(st.stack), parse_value(st.quote_content)),
               !.i = @ + 1]

CloseDoubleStep(st) ==
    [st EXCEPT !.in_double_quote = FALSE,
               !.result = AppendAt(@, Top(st.stack), PyStr(st.quote_content)),
               !.i = @ + 1]

InQuoteStep(st) ==
    [st EXCEPT !.quote_content = @ \o <<Char(st)>>, !.i = @ + 1]

\* new_list = Sexp(); stack[-1].append(new_list); stack.append(new_list)
OpenParenStep(st) ==
    LET f == Flush(st)
        top == Top(f.stack)
        new == top \o <<Len(NodeAt(f.result, top).v) + 1>>
    IN [f EXCEPT !.result = AppendAt(@, top, PySexp(<<>>)),
                 !.stack = Append(@, new),
                 !.i = @ + 1]

\* Mutant of Pop: the guard "len(stack) > 1" is missing.
PopUnguarded(stack) == SubSeq(stack, 1, Len(stack) - 1)

\* if len(stack) > 1: stack.pop()
Pop(stack) == IF Len(stack) > 1 THEN SubSeq(stack, 1, Len(stack) - 1) ELSE stack

CloseParenStep(st) ==
    [Flush(st) EXCEPT !.stack = Pop(@), !.i = @ + 1]

SpaceStep(st) == [Flush(st) EXCEPT !.i = @ + 1]

OtherStep(st) ==
    [st EXCEPT !.current_token = @ \o <<Char(st)>>, !.i = @ + 1]

\* One iteration of the loop "while i < len(s_expr)".
ParseStep(st) ==
    LET b == Branch(st) IN
    CASE b = "escape" -> EscapeStep(st)
      [] b = "open_single" -> OpenSingleStep(st)
      [] b = "open_double" -> OpenDoubleStep(st)
      [] b = "close_single" -> CloseSingleStep(st)
      [] b = "close_double" -> CloseDoubleStep(st)
      [] b = "in_quote" -> InQuoteStep(st)
      [] b = "open_paren" -> OpenParenStep(st)
      [] b = "close_paren" -> CloseParenStep(st)
      [] b = "space" -> SpaceStep(st)
      [] OTHER -> OtherStep(st)

ScanDone(st) == st.i >= Len(st.s_expr)

RECURSIVE ParseAll(_)
ParseAll(st) == IF ScanDone(st) THEN st ELSE ParseAll(ParseStep(st))

\* list.__init__(self, iterable) of a Sexp: the elements of a list, the
\* characters of a str, TypeError for a number.
ListInit(x) ==
    IF IsList(x) THEN Returned(PySexp(x.v))
    ELSE IF x.t = "str" THEN Returned(PySexp([k \in 1..Len(x.v) |-> PyStr(<<x.v[k]>>)]))
    ELSE Raised("TypeError")

\* Mutant of Parsed: the first form is taken whenever there is one.
ParsedFirst(result) == IF Len(result.v) >= 1 THEN result.v[1] ELSE result

\* parsed = result[0] if len(result) == 1 else result
Parsed(result) == IF Len(result.v) = 1 THEN result.v[1] ELSE result

\* Mutant of Construct: only an open double quote is reported.
ConstructDoubleOnly(st) ==
    LET f == Flush(st) IN
    IF f.in_double_quote THEN Raised("ValueError") ELSE ListInit(Parsed(f.result))

\* After the loop: the trailing token, the unclosed-quote check, list.__init__.
Construct(st) ==
    LET f == Flush(st) IN
    IF InQuote(f) THEN Raised("ValueError") ELSE ListInit(Parsed(f.result))

\* Sexp(text)
SexpOfText(text) == Construct(ParseAll(ParserStart(text)))

\* Mutant of SexpOfList: the elements are wrapped but their own elements
\* are not converted.
SexpOfListShallow(raw) ==
    PySexp([k \in 1..Len(raw.v) |->
              IF IsList(raw.v[k]) /\ ~IsSexp(raw.v[k])
              THEN PySexp(raw.v[k].v) ELSE raw.v[k]])

\* Sexp(raw): the list constructor, then every element that is a list and
\* not a Sexp is replaced by Sexp(element).
RECURSIVE SexpOfList(_)
SexpOfList(raw) ==
    PySexp([k \in 1..Len(raw.v) |->
              IF IsList(raw.v[k]) /\ ~IsSexp(raw.v[k])
              THEN SexpOfList(raw.v[k]) ELSE raw.v[k]])

(***************************************************************************)
(* The pretty-printer: prettify_sexp.  A printer state holds the locals of *)
(* the scan; "" stands for None in in_string and last_char; result is the  *)
(* text appended so far.                                                   *)
(***************************************************************************)
PrinterStart(text, break_inc, spaces_per_level) ==
    [sexp |-> RemoveNewlines(text),
     break_inc |-> break_inc,
     spaces_per_level |-> spaces_per_level,
     result |-> <<>>,
     level |-> 0,
     in_string |-> "",
     escaped |-> FALSE,
     i |-> 0,
     last_char |-> ""]

\* The index of the first character at or after index j that is not
\* whitespace (len(sexp) when there is none); indices count from 0.
RECURSIVE SkipSpace(_, _)
SkipSpace(sexp, j) ==
    IF j < Len(sexp) /\ IsSpace(sexp[j + 1]) THEN SkipSpace(sexp, j + 1) ELSE j

\* Inside a string literal every character is appended.
InStringStep(st) ==
    LET c == st.sexp[st.i + 1] IN
    [st EXCEPT !.result = @ \o <<c>>,
               !.escaped = IF st.escaped THEN FALSE ELSE c = "\\",
               !.in_string = IF ~st.escaped /\ c # "\\" /\ c = st.in_string THEN "" ELSE @,
               !.i = @ + 1]

\* Mutant of BreakBefore: a break_inc that is not positive breaks at every level.
BreakBeforeAnyInc(st) ==
    st.level > 0 /\ (st.break_inc <= 0 \/ (st.level % st.break_inc) = 0)

\* Mutant of BreakBefore: the opening parenthesis at level 0 is broken too.
BreakBeforeAtRoot(st) ==
    st.break_inc > 0 /\ (st.level % st.break_inc) = 0

\* Newline and indentation are due before this opening parenthesis.
BreakBefore(st) ==
    st.break_inc > 0 /\ st.level > 0 /\ (st.level % st.break_inc) = 0

PrintOpenParenStep(st) ==
    LET space == IF /\ st.break_inc <= 0
                    /\ st.result # <<>>
                    /\ st.last_char # " "
                    /\ st.last_char # "("
                 THEN <<" ">> ELSE <<>>
        break == IF BreakBefore(st)
                 THEN <<"\n">> \o Spaces(st.level * st.spaces_per_level)
                 ELSE <<>>
    IN [st EXCEPT !.result = @ \o space \o break \o <<"(">>,
                  !.last_char = "(",
                  !.level = @ + 1,
                  !.i = SkipSpace(st.sexp, st.i + 1)]

PrintCloseParenStep(st) ==
    LET after == /\ st.break_inc <= 0
                 /\ st.i + 1 < Len(st.sexp)
                 /\ st.sexp[st.i + 2] \notin {")", " ", "\t", "\n"}
    IN [st EXCEPT !.level = @ - 1,
                  !.result = @ \o <<")">> \o (IF after THEN <<" ">> ELSE <<>>),
                  !.last_char = IF after THEN " " ELSE ")",
                  !.i = @ + 1]

PrintQuoteStep(st) ==
    LET c == st.sexp[st.i + 1] IN
    [st EXCEPT !.in_string = c, !.result = @ \o <<c>>, !.last_char = c, !.i = @ + 1]

\* Mutant of PrintSpaceStep: with break_inc > 0, whitespace before a closing
\* parenthesis sets i = j - 1 and the increment that follows is left out.
PrintSpaceStepNoAdvance(st) ==
    LET c == st.sexp[st.i + 1]
        j == SkipSpace(st.sexp, st.i + 1)
    IN IF st.break_inc <= 0
       THEN IF /\ j < Len(st.sexp)
               /\ st.sexp[j + 1] # ")"
               /\ st.last_char # " "
               /\ st.last_char # "("
            THEN [st EXCEPT !.result = @ \o <<" ">>, !.last_char = " ", !.i = @ + 1]
            ELSE [st EXCEPT !.i = @ + 1]
       ELSE IF j < Len(st.sexp) /\ st.sexp[j + 1] = ")"
            THEN [st EXCEPT !.i = j - 1]
            ELSE [st EXCEPT !.result = @ \o <<c>>, !.last_char = c, !.i = @ + 1]

PrintSpaceStep(st) ==
    LET c == st.sexp[st.i + 1]
        j == SkipSpace(st.sexp, st.i + 1)
    IN IF st.break_inc <= 0
       THEN IF /\ j < Len(st.sexp)
               /\ st.sexp[j + 1] # ")"
               /\ st.last_char # " "
               /\ st.last_char # "("
            THEN [st EXCEPT !.result = @ \o <<" ">>, !.last_char = " ", !.i = @ + 1]
            ELSE [st EXCEPT !.i = @ + 1]
       ELSE IF j < Len(st.sexp) /\ st.sexp[j + 1] = ")"
            THEN [st EXCEPT !.i = j]
            ELSE [st EXCEPT !.result = @ \o <<c>>, !.last_char = c, !.i = @ + 1]

PrintOtherStep(st) ==
    LET c == st.sexp[st.i + 1] IN
    [st EXCEPT !.result = @ \o <<c>>, !.last_char = c, !.i = @ + 1]

\* Which branch of the loop body the current character takes.
PrintBranch(st) ==
    LET c == st.sexp[st.i + 1] IN
    IF st.in_string # "" THEN "in_string"
    ELSE IF c = "(" THEN "open_paren"
    ELSE IF c = ")" THEN "close_paren"
    ELSE IF c \in {"'", "\""} THEN "quote"
    ELSE IF IsSpace(c) THEN "space"
    ELSE "other"

\* One iteration of the loop "while i < len(sexp)".
PrintStep(st) ==
    LET b == PrintBranch(st) IN
    CASE b = "in_string" -> InStringStep(st)
      [] b = "open_paren" -> PrintOpenParenStep(st)
      [] b = "close_paren" -> PrintCloseParenStep(st)
      [] b = "quote" -> PrintQuoteStep(st)
      [] b = "space" -> PrintSpaceStep(st)
      [] OTHER -> PrintOtherStep(st)

PrintDone(st) == st.i >= Len(st.sexp)

RECURSIVE PrintAll(_)
PrintAll(st) == IF PrintDone(st) THEN st ELSE PrintAll(PrintStep(st))

\* prettify_sexp(sexp, break_inc=..., spaces_per_level=...)
prettify_sexp(text, break_inc, spaces_per_level) ==
    PrintAll(PrinterStart(text, break_inc, spaces_per_level)).result

(***************************************************************************)
(* The serializer: Sexp.to_str.                                            *)
(***************************************************************************)
\* item_str starts and ends with the same quote character.
AlreadyQuoted(item_str) ==
    /\ item_str # <<>>
    /\ \/ item_str[1] = "\"" /\ item_str[Len(item_str)] = "\""
       \/ item_str[1] = "'" /\ item_str[Len(item_str)] = "'"

\* Mutant of ElementStr: the first element is quoted like the others.
ElementStrQuoteFirst(item, k, quote_nums, quote_strs) ==
    LET item_str == Str(item)
        quote == IF IsNum(item) THEN quote_nums ELSE quote_strs
    IN IF quote /\ ~AlreadyQuoted(item_str) THEN <<"\"">> \o item_str \o <<"\"">>
       ELSE item_str

\* The text of a scalar element at index k (from 1) of a list.
ElementStr(item, k, quote_nums, quote_strs) ==
    LET item_str == Str(item)
        quote == IF IsNum(item) THEN quote_nums ELSE quote_strs
    IN IF k = 1 THEN item_str
       ELSE IF quote /\ ~AlreadyQuoted(item_str) THEN <<"\"">> \o item_str \o <<"\"">>
       ELSE item_str

\* Mutant of EmptyListStr: a space between the parentheses.
EmptyListSpaced == <<"(", " ", ")">>

\* if not self: return "()"
EmptyListStr == <<"(", ")">>

RECURSIVE to_str(_, _, _, _, _)
to_str(self, quote_nums, quote_strs, break_inc, spaces_per_level) ==
    IF ~IsList(self) THEN Str(self)
    ELSE IF self.v = <<>> THEN EmptyListStr
    ELSE LET elements ==
                 [k \in 1..Len(self.v) |->
                    IF IsList(self.v[k])
                    THEN to_str(self.v[k], quote_nums, quote_strs,
                                break_inc, spaces_per_level)
                    ELSE ElementStr(self.v[k], k, quote_nums, quote_strs)]
         IN prettify_sexp(<<"(">> \o JoinSpace(elements) \o <<")">>,
                          break_inc, spaces_per_level)

(***************************************************************************)
(* The mutators of class Sexp.  Each takes the Sexp and gives the Sexp     *)
(* after the call.                                                         *)
(***************************************************************************)
\* Sexp.append(item)
append(self, item) ==
    IF IsList(item) /\ ~IsSexp(item)
    THEN [self EXCEPT !.v = Append(@, SexpOfList(item))]
    ELSE [self EXCEPT !.v = Append(@, item)]

\* Sexp.extend(iterable): for item in iterable: self.append(item)
RECURSIVE extend(_, _)
extend(self, iterable) ==
    IF iterable.v = <<>> THEN self
    ELSE extend(append(self, Head(iterable.v)), [iterable EXCEPT !.v = Tail(@)])

\* Sexp.__setitem__(key, value) with an index as key (counted from 1)
setitem(self, key, value) ==
    IF IsList(value) /\ ~IsSexp(value)
    THEN [self EXCEPT !.v[key] = SexpOfList(value)]
    ELSE [self EXCEPT !.v[key] = value]

\* The tree with the node at path replaced.
RECURSIVE ReplaceAt(_, _, _)
ReplaceAt(tree, path, node) ==
    IF path = <<>> THEN node
    ELSE [tree EXCEPT !.v[Head(path)] = ReplaceAt(@, Tail(path), node)]

\* The paths of the Sexp objects of a tree (those a mutator can be called on).
RECURSIVE SexpPaths(_)
SexpPaths(tree) ==
    IF ~IsList(tree) THEN {}
    ELSE (IF IsSexp(tree) THEN {<<>>} ELSE {})
         \cup UNION {{<<k>> \o p : p \in SexpPaths(tree.v[k])} : k \in 1..Len(tree.v)}

(***************************************************************************)
(* The search: Sexp.search.  A path is the sequence of list indices        *)
(* (counted from 0, as in the source) that leads from the root to a list;  *)
(* a result is a sequence of matches [path, node] in the order they were   *)
(* appended.                                                               *)
(***************************************************************************)
\* max_depth: None, or an int.
NoDepth == [some |-> FALSE, d |-> 0]
Depth(d) == [some |-> TRUE, d |-> d]

\* A callable given as pattern, known by its name, and a compiled regular
\* expression.
PyFunction(name) == [t |-> "function", v |-> name]
PyRegex(chars) == [t |-> "regex", v |-> chars]

\* flat[k] for the concatenation of a sequence of sequences.
RECURSIVE Concat(_)
Concat(seqs) == IF seqs = <<>> THEN <<>> ELSE Head(seqs) \o Concat(Tail(seqs))

\* a == b of two numbers: ints and floats compare by value, nan equals
\* nothing, 0.0 equals -0.0.
NumEq(a, b) ==
    IF a.t = "int" /\ b.t = "int" THEN a.v = b.v
    ELSE IF a.t = "float" /\ b.t = "float"
    THEN /\ a.v.special # "nan"
         /\ b.v.special # "nan"
         /\ a.v.special = b.v.special
         /\ a.v.m = b.v.m
         /\ a.v.e = b.v.e
         /\ (a.v.neg = b.v.neg \/ (a.v.m = 0 /\ a.v.special = ""))
    ELSE LET i == IF a.t = "int" THEN a.v ELSE b.v
             f == IF a.t = "int" THEN b.v ELSE a.v
         IN /\ f.special = ""
            /\ f.e >= 0
            /\ i = (IF f.neg THEN -1 ELSE 1) * f.m * Pow10(f.e)

\* a == b of two Python values: numbers by value, strings by content, lists
\* (plain or Sexp) element by element, callables and compiled patterns by
\* identity, values of different kinds unequal.
RECURSIVE PyEq(_, _)
PyEq(a, b) ==
    IF IsNum(a) /\ IsNum(b) THEN NumEq(a, b)
    ELSE IF a.t = "str" /\ b.t = "str" THEN a.v = b.v
    ELSE IF IsList(a) /\ IsList(b)
    THEN /\ Len(a.v) = Len(b.v)
         /\ \A k \in 1..Len(a.v) : PyEq(a.v[k], b.v[k])
    ELSE a.t = b.t /\ a.t \in {"function", "regex"} /\ a.v = b.v

\* str(x): of a scalar, or of a Sexp (Sexp.__str__ is to_str with its defaults).
KeyStr(x) == IF IsList(x) THEN to_str(x, TRUE, TRUE, 1, 2) ELSE Str(x)

\* pattern.strip('/')
RECURSIVE LStripSlash(_)
LStripSlash(s) == IF s # <<>> /\ Head(s) = "/" THEN LStripSlash(Tail(s)) ELSE s

RECURSIVE RStripSlash(_)
RStripSlash(s) ==
    IF s # <<>> /\ s[Len(s)] = "/" THEN RStripSlash(SubSeq(s, 1, Len(s) - 1)) ELSE s

StripSlash(s) == RStripSlash(LStripSlash(s))

\* s.split('/'): never empty, the empty string gives [''].
RECURSIVE SplitSlash(_)
SplitSlash(s) ==
    LET p == FirstIn(s, {"/"}) IN
    IF p > Len(s) THEN <<s>>
    ELSE <<SubSeq(s, 1, p - 1)>> \o SplitSlash(SubSeq(s, p + 1, Len(s)))

\* all(sk == ck for sk, ck in zip(search_keys, keys)): over the shorter length.
ZipAllEqual(search_keys, keys) ==
    \A k \in 1..(IF Len(search_keys) < Len(keys) THEN Len(search_keys) ELSE Len(keys)) :
        search_keys[k] = keys[k]

\* pattern.search(s) for the regular expressions made of literal characters,
\* '.', a leading '^' and a trailing '$'.
RegexSearch(re, s) ==
    LET at_start == re # <<>> /\ re[1] = "^"
        r1 == IF at_start THEN Tail(re) ELSE re
        at_end == r1 # <<>> /\ r1[Len(r1)] = "$"
        body == IF at_end THEN SubSeq(r1, 1, Len(r1) - 1) ELSE r1
    IN \E p \in 1..(Len(s) - Len(body) + 1) :
          /\ at_start => p = 1
          /\ at_end => p + Len(body) - 1 = Len(s)
          /\ \A k \in 1..Len(body) : body[k] = "." \/ body[k] = s[p + k - 1]

\* pattern(nested_list) for the callables given as patterns.
CallFunction(name, nested_list) ==
    CASE name = "len_gt_1" -> Len(nested_list.v) > 1
      [] name = "first_is_a" -> PyEq(nested_list.v[1], PyStr(<<"a">>))
      [] name = "has_list" -> \E k \in 1..Len(nested_list.v) : IsList(nested_list.v[k])
      [] OTHER -> TRUE

\* current_path as a Python list of ints.
PathList(path) == PyList([k \in 1..Len(path) |-> PyInt(path[k])])

\* Mutant of ValueMatch: values of different types never match.
ValueMatchSameType(first, pattern) == first.t = pattern.t /\ PyEq(first, pattern)

\* match = nested_list[0] == pattern
ValueMatch(first, pattern) == PyEq(first, pattern)

\* Mutant of PathMatch: the pattern is compared with the start of the path.
PathMatchStart(current_path, pattern) ==
    /\ pattern.t \in {"list", "sexp"}
    /\ Len(pattern.v) <= Len(current_path)
    /\ PyEq(PathList(SubSeq(current_path, 1, Len(pattern.v))), pattern)

\* match = current_path == pattern
PathMatch(current_path, pattern) == PyEq(PathList(current_path), pattern)

\* Mutant of ContainsMatch: the pattern is looked for at every depth.
RECURSIVE ContainsMatchDeep(_, _)
ContainsMatchDeep(nested_list, pattern) ==
    \E k \in 1..Len(nested_list.v) :
       \/ PyEq(nested_list.v[k], pattern)
       \/ IsList(nested_list.v[k]) /\ ContainsMatchDeep(nested_list.v[k], pattern)

\* match = pattern in nested_list
ContainsMatch(nested_list, pattern) ==
    \E k \in 1..Len(nested_list.v) : PyEq(nested_list.v[k], pattern)

\* The match test of the strategies other than key_path, on a non-empty list.
Match(nested_list, pattern, search_type, current_path) ==
    LET first == nested_list.v[1] IN
    CASE search_type = "value" -> ValueMatch(first, pattern)
      [] search_type = "first_value" ->
            /\ first.t = "str" /\ pattern.t = "str"
            /\ Lower(first.v) = Lower(pattern.v)
      [] search_type = "contains" -> ContainsMatch(nested_list, pattern)
      [] search_type = "function" -> CallFunction(pattern.v, nested_list)
      [] search_type = "regex" -> first.t = "str" /\ RegexSearch(pattern.v, first.v)
      [] search_type = "path" -> PathMatch(current_path, pattern)
      [] OTHER -> FALSE

\* Mutant of KeyPathMatch: a relative search does not look below a match.
KeyPathMatchStopsAtMatch(pattern, current_keypath) ==
    LET is_absolute == pattern.v # <<>> /\ pattern.v[1] = "/"
        search_keys == SplitSlash(StripSlash(pattern.v))
        n == Len(search_keys)
        m == Len(current_keypath)
        suffix == /\ m >= n
                  /\ ZipAllEqual(search_keys, SubSeq(current_keypath, m - n + 1, m))
    IN IF is_absolute
       THEN [match |-> n = m /\ ZipAllEqual(search_keys, current_keypath),
             descend |-> m < n /\ ZipAllEqual(search_keys, current_keypath)]
       ELSE [match |-> suffix, descend |-> ~suffix]

\* Mutant of KeyPathMatch: an absolute search looks below every list.
KeyPathMatchAlwaysDescends(pattern, current_keypath) ==
    LET is_absolute == pattern.v # <<>> /\ pattern.v[1] = "/"
        search_keys == SplitSlash(StripSlash(pattern.v))
        n == Len(search_keys)
        m == Len(current_keypath)
    IN IF is_absolute
       THEN [match |-> n = m /\ ZipAllEqual(search_keys, current_keypath),
             descend |-> TRUE]
       ELSE [match |-> /\ m >= n
                       /\ ZipAllEqual(search_keys, SubSeq(current_keypath, m - n + 1, m)),
             descend |-> TRUE]

\* Mutant of KeyPathMatch: a relative search compares the keys with the start
\* of the KeyPath, not with its end.
KeyPathMatchFromRoot(pattern, current_keypath) ==
    LET is_absolute == pattern.v # <<>> /\ pattern.v[1] = "/"
        search_keys == SplitSlash(StripSlash(pattern.v))
        n == Len(search_keys)
        m == Len(current_keypath)
    IN IF is_absolute
       THEN [match |-> n = m /\ ZipAllEqual(search_keys, current_keypath),
             descend |-> m < n /\ ZipAllEqual(search_keys, current_keypath)]
       ELSE [match |-> /\ m >= n
                       /\ ZipAllEqual(search_keys, SubSeq(current_keypath, 1, n)),
             descend |-> TRUE]

\* Mutant of KeyPathMatch: an absolute search stops one level early, below a
\* list whose KeyPath is all the keys but the last.
KeyPathMatchPrunesEarly(pattern, current_keypath) ==
    LET is_absolute == pattern.v # <<>> /\ pattern.v[1] = "/"
        search_keys == SplitSlash(StripSlash(pattern.v))
        n == Len(search_keys)
        m == Len(current_keypath)
    IN IF is_absolute
       THEN [match |-> n = m /\ ZipAllEqual(search_keys, current_keypath),
             descend |-> m + 1 < n /\ ZipAllEqual(search_keys, current_keypath)]
       ELSE [match |-> /\ m >= n
                       /\ ZipAllEqual(search_keys, SubSeq(current_keypath, m - n + 1, m)),
             descend |-> TRUE]

\* The key_path test: whether the list matches, and whether its children are
\* searched.
KeyPathMatch(pattern, current_keypath) ==
    LET is_absolute == pattern.v # <<>> /\ pattern.v[1] = "/"
        search_keys == SplitSlash(StripSlash(pattern.v))
        n == Len(search_keys)
        m == Len(current_keypath)
    IN IF is_absolute
       THEN [match |-> n = m /\ ZipAllEqual(search_keys, current_keypath),
             descend |-> m < n /\ ZipAllEqual(search_keys, current_keypath)]
       ELSE [match |-> /\ m >= n
                       /\ ZipAllEqual(search_keys, SubSeq(current_keypath, m - n + 1, m)),
             descend |-> TRUE]

\* Mutant of ChildPath: the index is counted from 1.
ChildPathFromOne(current_path, k) == Append(current_path, k)

\* new_path = current_path + [i], for the k-th element (i = k - 1).
ChildPath(current_path, k) == Append(current_path, k - 1)

\* Mutant of DepthReached: the depth max_depth itself is still searched.
DepthReachedLate(max_depth, current_path) ==
    max_depth.some /\ Len(current_path) > max_depth.d

\* max_depth is not None and len(current_path) >= max_depth
DepthReached(max_depth, current_path) ==
    max_depth.some /\ Len(current_path) >= max_depth.d

\* _search_recursive: the non-empty lists it processes (those that pass its
\* two early returns), in order, each with its path and whether it was
\* appended to results.
RECURSIVE SearchRecursive(_, _, _, _, _, _)
SearchRecursive(nested_list, pattern, search_type, max_depth, current_path, current_keypath) ==
    IF DepthReached(max_depth, current_path) THEN <<>>
    ELSE IF ~IsList(nested_list) \/ nested_list.v = <<>> THEN <<>>
    ELSE LET keypath == Append(current_keypath, KeyStr(nested_list.v[1]))
             here(match) ==
                 <<[path |-> current_path, node |-> nested_list, match |-> match]>>
             below == Concat([k \in 1..Len(nested_list.v) |->
                         IF IsList(nested_list.v[k])
                         THEN SearchRecursive(nested_list.v[k], pattern, search_type,
                                              max_depth, ChildPath(current_path, k),
                                              keypath)
                         ELSE <<>>])
         IN IF search_type = "key_path" /\ pattern.t = "str"
            THEN LET kp == KeyPathMatch(pattern, keypath)
                 IN here(kp.match) \o (IF kp.descend THEN below ELSE <<>>)
            ELSE here(Match(nested_list, pattern, search_type, current_path)) \o below

\* The lists a call of search processes, in order.
Processed(self, pattern, search_type, max_depth) ==
    SearchRecursive(self, pattern, search_type, max_depth, <<>>, <<>>)

\* Sexp.search(pattern, search_type, max_depth): results, the (path, sublist)
\* pairs in the order they were appended.
search(self, pattern, search_type, max_depth) ==
    LET all == Processed(self, pattern, search_type, max_depth)
        IsMatch(e) == e.match
        hits == SelectSeq(all, IsMatch)
    IN [k \in 1..Len(hits) |-> [path |-> hits[k].path, node |-> hits[k].node]]

(***************************************************************************)
(* Objects by reference.  A list object is a cell at an address of the     *)
(* store: its class and its elements, each a scalar or a reference to      *)
(* another cell.  What a call writes to the store is what it does to the   *)
(* lists its caller holds.                                                 *)
(***************************************************************************)
Ref(a) == [t |-> "ref", v |-> a]
IsRef(x) == x.t = "ref"

\* The cells of the given values added to the store, children before their
\* list; vals are the values with each list replaced by its reference.
RECURSIVE StoreAll(_, _, _)
StoreAll(cells, items, vals) ==
    IF items = <<>> THEN [cells |-> cells, vals |-> vals]
    ELSE LET x == Head(items) IN
         IF IsList(x)
         THEN LET sub == StoreAll(cells, x.v, <<>>)
                  all == Append(sub.cells, [cls |-> x.t, elems |-> sub.vals])
              IN StoreAll(all, Tail(items), Append(vals, Ref(Len(all))))
         ELSE StoreAll(cells, Tail(items), Append(vals, x))

\* A tree as objects of a fresh store.
Store(tree) ==
    LET st == StoreAll(<<>>, <<tree>>, <<>>)
    IN [cells |-> st.cells, root |-> st.vals[1].v]

\* The tree a cell of the store stands for.
RECURSIVE Load(_, _)
Load(cells, a) ==
    [t |-> cells[a].cls,
     v |-> [k \in 1..Len(cells[a].elems) |->
              IF IsRef(cells[a].elems[k]) THEN Load(cells, cells[a].elems[k].v)
              ELSE cells[a].elems[k]]]

RECURSIVE SexpInit(_, _)
RECURSIVE SexpInitLoop(_, _, _)
RECURSIVE SexpInitInPlace(_, _)

\* for i in range(len(self)): if self[i] is a list and not a Sexp:
\*     self[i] = Sexp(self[i])
SexpInitLoop(cells, self, i) ==
    IF i > Len(cells[self].elems) THEN cells
    ELSE LET e == cells[self].elems[i] IN
         IF IsRef(e) /\ cells[e.v].cls = "list"
         THEN LET made == SexpInit(cells, e.v)
              IN SexpInitLoop([made.cells EXCEPT ![self].elems[i] = Ref(made.addr)],
                              self, i + 1)
         ELSE SexpInitLoop(cells, self, i + 1)

\* Mutant of SexpInit: the argument itself becomes the Sexp and its elements
\* are converted in it.
SexpInitInPlace(cells, item) ==
    [cells |-> SexpInitLoop([cells EXCEPT ![item].cls = "sexp"], item, 1),
     addr |-> item]

\* Sexp(item) for a list: a new object with the elements of item
\* (super().__init__ copies them), then the conversion of its own elements.
SexpInit(cells, item) ==
    LET fresh == Append(cells, [cls |-> "sexp", elems |-> cells[item].elems])
    IN [cells |-> SexpInitLoop(fresh, Len(fresh), 1), addr |-> Len(fresh)]

\* What to_str writes to the store: a nested Sexp is serialized by its own
\* to_str, any other nested list through Sexp(item).to_str.
RECURSIVE ToStrWrites(_, _)
RECURSIVE ToStrWritesFrom(_, _, _)
ToStrWritesFrom(cells, self, i) ==
    IF i > Len(cells[self].elems) THEN cells
    ELSE LET e == cells[self].elems[i] IN
         IF ~IsRef(e) THEN ToStrWritesFrom(cells, self, i + 1)
         ELSE IF cells[e.v].cls = "sexp"
         THEN ToStrWritesFrom(ToStrWrites(cells, e.v), self, i + 1)
         ELSE LET made == SexpInit(cells, e.v)
              IN ToStrWritesFrom(ToStrWrites(made.cells, made.addr), self, i + 1)

ToStrWrites(cells, self) == ToStrWritesFrom(cells, self, 1)

\* What search writes to the store: nothing; results and the path lists are
\* new lists of the call, and the matched sublists are returned as they are.
SearchWrites(cells, self) == cells

(***************************************************************************)
(* State.                                                                  *)
(*   pc      where the run stands                                          *)
(*   text    the text given to Sexp(text) or to prettify_sexp              *)
(*   parser  the locals of the parser's scan                               *)
(*   ret     what Sexp(text) gave its caller                               *)
(*   cfg     the keyword arguments of to_str / prettify_sexp               *)
(*   out     the text returned by to_str or prettify_sexp                  *)
(*   ret2    what Sexp(out) gave its caller                                *)
(*   out2    the text returned by prettify_sexp(out)                       *)
(*   obj     a Sexp object under mutation                                  *)
(*   nops    the number of mutator calls made on obj                       *)
(*   call    the last mutator call made on obj                             *)
(*   query   the arguments of the last call of obj.search                  *)
(*   found   what that call returned                                       *)
(*   visited the paths of the non-empty lists that call processed          *)
(*   heap    the list objects of obj, by address, and the address of obj   *)
(*   found2  what the same call of obj.search returned when repeated       *)
(*   printer the locals of the pretty-printer's scan                       *)
(***************************************************************************)
VARIABLES pc, text, parser, ret, cfg, out, ret2, out2, obj, nops, call, query, found,
          visited, heap, found2, printer

vars == <<pc, text, parser, ret, cfg, out, ret2, out2, obj, nops, call, query, found, visited, heap, found2, printer>>

NoCall == [op |-> "none", path |-> <<>>, key |-> 0, arg |-> NoTree]

Pending == [error |-> "pending", self |-> NoTree]

NoQuery == [pattern |-> NoTree, search_type |-> "none", max_depth |-> NoDepth]

NoHeap == [cells |-> <<>>, root |-> 0]

NoPrinter == PrinterStart(<<>>, 1, 2)

\* The defaults of to_str and prettify_sexp.
DefaultCfg ==
    [op |-> "to_str", quote_nums |-> TRUE, quote_strs |-> TRUE,
     break_inc |-> 1, spaces_per_level |-> 2]

(***************************************************************************)
(* Spec: Sexp(text) scanned one character at a time, then the tree         *)
(* serialized with the defaults and the serialization parsed again.        *)
(***************************************************************************)
Init ==
    /\ text \in Texts(ParseAlphabet, MaxLen)
    /\ pc = "scan"
    /\ parser = ParserStart(text)
    /\ ret = Pending
    /\ cfg = DefaultCfg
    /\ out = <<>>
    /\ ret2 = Pending
    /\ out2 = <<>>
    /\ obj = NoTree
    /\ nops = 0
    /\ call = NoCall
    /\ query = NoQuery
    /\ found = <<>>
    /\ visited = <<>>
    /\ heap = NoHeap
    /\ found2 = <<>>
    /\ printer = NoPrinter

\* The parser's loop is about to run an iteration that takes the given branch.
Scanning(branch) == pc = "scan" /\ ~ScanDone(parser) /\ Branch(parser) = branch

\* A backslash that has a character after it.
Escape ==
    /\ Scanning("escape")
    /\ parser' = EscapeStep(parser)
    /\ UNCHANGED <<pc, text, ret, cfg, out, ret2, out2, obj, nops, call, query, found, visited, heap, found2, printer>>

\* A single quote outside any quote.
OpenSingle ==
    /\ Scanning("open_single")
    /\ parser' = OpenSingleStep(parser)
    /\ UNCHANGED <<pc, text, ret, cfg, out, ret2, out2, obj, nops, call, query, found, visited, heap, found2, printer>>

\* A double quote outside any quote.
OpenDouble ==
    /\ Scanning("open_double")
    /\ parser' = OpenDoubleStep(parser)
    /\ UNCHANGED <<pc, text, ret, cfg, out, ret2, out2, obj, nops, call, query, found, visited, heap, found2, printer>>

\* A single quote inside a single-quoted run.
CloseSingle ==
    /\ Scanning("close_single")
    /\ parser' = CloseSingleStep(parser)
    /\ UNCHANGED <<pc, text, ret, cfg, out, ret2, out2, obj, nops, call, query, found, visited, heap, found2, printer>>

\* A double quote inside a double-quoted run.
CloseDouble ==
    /\ Scanning("close_double")
    /\ parser' = CloseDoubleStep(parser)
    /\ UNCHANGED <<pc, text, ret, cfg, out, ret2, out2, obj, nops, call, query, found, visited, heap, found2, printer>>

\* Any other character inside a quoted run.
InQuoteChar ==
    /\ Scanning("in_quote")
    /\ parser' = InQuoteStep(parser)
    /\ UNCHANGED <<pc, text, ret, cfg, out, ret2, out2, obj, nops, call, query, found, visited, heap, found2, printer>>

\* An opening parenthesis outside quotes.
OpenParen ==
    /\ Scanning("open_paren")
    /\ parser' = OpenParenStep(parser)
    /\ UNCHANGED <<pc, text, ret, cfg, out, ret2, out2, obj, nops, call, query, found, visited, heap, found2, printer>>

\* A closing parenthesis outside quotes.
CloseParen ==
    /\ Scanning("close_paren")
    /\ parser' = CloseParenStep(parser)
    /\ UNCHANGED <<pc, text, ret, cfg, out, ret2, out2, obj, nops, call, query, found, visited, heap, found2, printer>>

\* Whitespace outside quotes.
Space ==
    /\ Scanning("space")
    /\ parser' = SpaceStep(parser)
    /\ UNCHANGED <<pc, text, ret, cfg, out, ret2, out2, obj, nops, call, query, found, visited, heap, found2, printer>>

\* Any other character outside quotes.
Other ==
    /\ Scanning("other")
    /\ parser' = OtherStep(parser)
    /\ UNCHANGED <<pc, text, ret, cfg, out, ret2, out2, obj, nops, call, query, found, visited, heap, found2, printer>>

\* The loop has ended: the rest of Sexp.__init__.
Finish ==
    /\ pc = "scan"
    /\ ScanDone(parser)
    /\ parser' = Flush(parser)
    /\ ret' = Construct(parser)
    /\ pc' = "constructed"
    /\ UNCHANGED <<text, cfg, out, ret2, out2, obj, nops, call, query, found, visited, heap, found2, printer>>

\* ret.self.to_str()
Serialize ==
    /\ pc = "constructed"
    /\ ret.error = "none"
    /\ out' = to_str(ret.self, cfg.quote_nums, cfg.quote_strs,
                     cfg.break_inc, cfg.spaces_per_level)
    /\ pc' = "serialized"
    /\ UNCHANGED <<text, parser, ret, cfg, ret2, out2, obj, nops, call, query, found, visited, heap, found2, printer>>

\* Sexp(out)
Reparse ==
    /\ pc = "serialized"
    /\ ret2' = SexpOfText(out)
    /\ pc' = "reparsed"
    /\ UNCHANGED <<text, parser, ret, cfg, out, out2, obj, nops, call, query, found, visited, heap, found2, printer>>

Next ==
    \/ Escape
    \/ OpenSingle
    \/ OpenDouble
    \/ CloseSingle
    \/ CloseDouble
    \/ InQuoteChar
    \/ OpenParen
    \/ CloseParen
    \/ Space
    \/ Other
    \/ Finish
    \/ Serialize
    \/ Reparse

Spec == Init /\ [][Next]_vars

(***************************************************************************)
(* Properties of the parser, checked under Spec.                           *)
(***************************************************************************)
\* The constructor has run to its end (it returned or raised).
Constructed == pc \in {"constructed", "serialized", "reparsed"}

\* C1: parsing the default serialization of a parsed tree gives a tree equal
\* to it, every scalar keeping its type and its value.
RoundTrip == pc = "reparsed" => ret2 = ret

\* C5: when the scan ends with a quote still open the constructor raises the
\* parse error and hands no tree to its caller.
UnclosedQuoteRaises ==
    (Constructed /\ InQuote(parser)) => ret = Raised("ValueError")

\* C5 witness: a scan that ended inside a quote after it had already built
\* part of a tree, and the constructor raised.
UnclosedQuoteRaisesWitness ==
    /\ pc = "constructed"
    /\ InQuote(parser)
    /\ parser.result.v # <<>>
    /\ ret.error = "ValueError"

\* C6: a text whose quotes are all closed is parsed without any error.
OnlyUnclosedQuoteIsFatal ==
    (Constructed /\ ~InQuote(parser)) => ret.error = "none"

\* A text that is one bare token: no parenthesis, quote, backslash or space.
BareToken(s) ==
    /\ s # <<>>
    /\ \A k \in 1..Len(s) : s[k] \notin {"(", ")", "'", "\"", "\\"} /\ ~IsSpace(s[k])

\* C7: a text that is a single bare token is accepted and the result is that
\* token classified as a scalar.
BareTokenIsScalar ==
    (Constructed /\ BareToken(text)) => ret = Returned(parse_value(text))

\* C8: with exactly one top-level form, a parenthesized one, the result is
\* that form's list; with k # 1 top-level forms the result is the list of the
\* k forms in input order.
OneRoot ==
    (Constructed /\ ret.error = "none") =>
        LET forms == parser.result.v IN
        /\ IsSexp(ret.self)
        /\ (Len(forms) = 1 /\ IsList(forms[1])) => ret.self.v = forms[1].v
        /\ Len(forms) # 1 => ret.self.v = forms

\* C8 witness: two top-level parenthesized forms, returned as a list of two.
OneRootWitness ==
    /\ pc = "constructed"
    /\ ret.error = "none"
    /\ Len(parser.result.v) = 2
    /\ \A k \in 1..2 : IsList(parser.result.v[k])
    /\ ret.self.v = parser.result.v

\* C9: the stack of in-progress lists always holds at least the root, and a
\* ')' read when only the root is on it leaves it as it is.
StackNeverUnderflows ==
    /\ [](Len(parser.stack) >= 1)
    /\ [][(Scanning("close_paren") /\ Len(parser.stack) = 1)
            => parser'.stack = parser.stack]_vars

\* C9 witness: a ')' at the very start of the text has been consumed and the
\* stack still holds the root alone.
StackNeverUnderflowsWitness ==
    /\ pc = "scan"
    /\ text # <<>>
    /\ text[1] = ")"
    /\ parser.i = 1
    /\ parser.stack = << <<>> >>

\* The elements of the list the parser is appending to (stack[-1]).
ActiveList(st) == NodeAt(st.result, Top(st.stack)).v

\* The scan is inside a quote and about to read character c, which is not the
\* quote character that closes it.
InsideQuoteAt(c) ==
    /\ pc = "scan"
    /\ ~ScanDone(parser)
    /\ InQuote(parser)
    /\ Char(parser) = c
    /\ ~(parser.in_single_quote /\ c = "'")
    /\ ~(parser.in_double_quote /\ c = "\"")

\* The scan is inside a quote and about to read the quote character that
\* closes it.
ClosingQuote ==
    /\ pc = "scan"
    /\ ~ScanDone(parser)
    /\ \/ parser.in_single_quote /\ Char(parser) = "'"
       \/ parser.in_double_quote /\ Char(parser) = "\""

\* C11: inside a quote, a parenthesis, a whitespace character or the other
\* quote character goes to the quote buffer and leaves the stack, the tree and
\* the token buffer alone; the closing quote appends the buffer to the active
\* list as one str, never classified (the empty buffer as the empty str).
QuoteIsOpaque ==
    /\ [][\A c \in {"(", ")", " ", "'", "\""} :
            InsideQuoteAt(c) =>
               /\ parser'.stack = parser.stack
               /\ parser'.result = parser.result
               /\ parser'.current_token = parser.current_token
               /\ InQuote(parser')
               /\ parser'.quote_content = parser.quote_content \o <<c>>]_vars
    /\ [][ClosingQuote =>
               /\ parser'.stack = parser.stack
               /\ ~InQuote(parser')
               /\ ActiveList(parser') =
                      Append(ActiveList(parser), PyStr(parser.quote_content))]_vars

\* C11 witness: inside a parenthesized list a double-quoted run holding the
\* digit 1 has just been closed and the list's last element is the str "1".
QuoteIsOpaqueWitness ==
    /\ pc = "scan"
    /\ Len(parser.stack) = 2
    /\ parser.i >= 3
    /\ text[parser.i] = "\""
    /\ text[parser.i - 1] = "1"
    /\ text[parser.i - 2] = "\""
    /\ ~InQuote(parser)
    /\ ActiveList(parser) # <<>>
    /\ ActiveList(parser)[Len(ActiveList(parser))] = PyStr(<<"1">>)

\* The scan is about to read a backslash that has a character after it.
AtEscape ==
    /\ pc = "scan"
    /\ parser.i + 1 < Len(text)
    /\ text[parser.i + 1] = "\\"

\* C12: a backslash followed by a character is handled before any other rule
\* and both characters are consumed; inside a quote the second character
\* alone joins the quote buffer when it is ', " or \, both join it otherwise,
\* and the quote stays open; outside a quote both join the token buffer and
\* the second character opens or closes nothing and separates nothing.
EscapeRule ==
    [][AtEscape =>
         LET n == text[parser.i + 2] IN
         /\ parser'.i = parser.i + 2
         /\ parser'.stack = parser.stack
         /\ parser'.result = parser.result
         /\ parser'.in_single_quote = parser.in_single_quote
         /\ parser'.in_double_quote = parser.in_double_quote
         /\ IF InQuote(parser)
            THEN /\ parser'.current_token = parser.current_token
                 /\ parser'.quote_content =
                        parser.quote_content \o
                        (IF n \in {"'", "\"", "\\"} THEN <<n>> ELSE <<"\\", n>>)
            ELSE /\ parser'.quote_content = parser.quote_content
                 /\ parser'.current_token = parser.current_token \o <<"\\", n>>]_vars

\* C12 witness: an escaped double quote inside a double-quoted run has been
\* consumed; it alone is in the quote buffer and the quote is still open.
EscapeRuleWitness ==
    /\ pc = "scan"
    /\ Len(text) >= 3
    /\ text[1] = "\""
    /\ text[2] = "\\"
    /\ text[3] = "\""
    /\ parser.i = 3
    /\ parser.in_double_quote
    /\ parser.quote_content = <<"\"">>

(***************************************************************************)
(* SpecPretty: prettify_sexp(text) under some configuration, and then      *)
(* prettify_sexp of its own output under the same configuration.           *)
(* SpecSerial: prettify_sexp(text), or Sexp(text).to_str(), under some     *)
(* configuration.                                                          *)
(***************************************************************************)
InitText(alphabet, n) ==
    /\ text \in Texts(alphabet, n)
    /\ pc = "start"
    /\ parser = ParserStart(<<>>)
    /\ ret = Pending
    /\ cfg = DefaultCfg
    /\ out = <<>>
    /\ ret2 = Pending
    /\ out2 = <<>>
    /\ obj = NoTree
    /\ nops = 0
    /\ call = NoCall
    /\ query = NoQuery
    /\ found = <<>>
    /\ visited = <<>>
    /\ heap = NoHeap
    /\ found2 = <<>>
    /\ printer = NoPrinter

InitPretty == InitText(PrettyAlphabet, MaxPrettyLen)
InitSerial == InitText(PrettyAlphabet, MaxSerialLen)

\* out = prettify_sexp(text, break_inc=bi, spaces_per_level=spl)
Prettify ==
    /\ pc = "start"
    /\ \E bi \in BreakIncs, spl \in SpacesPerLevel :
         /\ cfg' = [DefaultCfg EXCEPT !.op = "prettify_sexp",
                                      !.break_inc = bi,
                                      !.spaces_per_level = spl]
         /\ out' = prettify_sexp(text, bi, spl)
    /\ pc' = "printed"
    /\ UNCHANGED <<text, parser, ret, ret2, out2, obj, nops, call, query, found, visited, heap, found2, printer>>

\* out2 = prettify_sexp(out, ...) with the configuration of the first call
PrettifyAgain ==
    /\ pc = "printed"
    /\ cfg.op = "prettify_sexp"
    /\ out2' = prettify_sexp(out, cfg.break_inc, cfg.spaces_per_level)
    /\ pc' = "printed_again"
    /\ UNCHANGED <<text, parser, ret, cfg, out, ret2, obj, nops, call, query, found, visited, heap, found2, printer>>

\* ret = Sexp(text)
ParseText ==
    /\ pc = "start"
    /\ parser' = Flush(ParseAll(ParserStart(text)))
    /\ ret' = SexpOfText(text)
    /\ pc' = "parsed"
    /\ UNCHANGED <<text, cfg, out, ret2, out2, obj, nops, call, query, found, visited, heap, found2, printer>>

\* out = ret.self.to_str(quote_nums=qn, quote_strs=qs, break_inc=bi, spaces_per_level=spl)
ToStr ==
    /\ pc = "parsed"
    /\ ret.error = "none"
    /\ \E qn \in BOOLEAN, qs \in BOOLEAN, bi \in BreakIncs, spl \in SpacesPerLevel :
         /\ cfg' = [op |-> "to_str", quote_nums |-> qn, quote_strs |-> qs,
                    break_inc |-> bi, spaces_per_level |-> spl]
         /\ out' = to_str(ret.self, qn, qs, bi, spl)
    /\ pc' = "printed"
    /\ UNCHANGED <<text, parser, ret, ret2, out2, obj, nops, call, query, found, visited, heap, found2, printer>>

NextPretty ==
    \/ Prettify
    \/ PrettifyAgain

SpecPretty == InitPretty /\ [][NextPretty]_vars

NextSerial ==
    \/ Prettify
    \/ ParseText
    \/ ToStr

SpecSerial == InitSerial /\ [][NextSerial]_vars

(***************************************************************************)
(* Properties of the pretty-printer and the serializer.                    *)
(***************************************************************************)
\* The lexical facts of a text as the pretty-printer reads it: the nesting
\* level at its end, whether the level ever fell below zero, the string
\* literal still open at its end ("" for none), whether a backslash stands
\* outside a string literal, and the quote-delimited runs (opening delimiter,
\* content, closing delimiter; the last one may be unterminated).
RECURSIVE Lex(_, _, _)
Lex(s, k, a) ==
    IF k > Len(s) THEN a
    ELSE LET c == s[k] IN
         IF a.in_string # ""
         THEN Lex(s, k + 1,
                  [a EXCEPT
                     !.runs[Len(a.runs)] = @ \o <<c>>,
                     !.escaped = IF a.escaped THEN FALSE ELSE c = "\\",
                     !.in_string =
                         IF ~a.escaped /\ c = a.in_string THEN "" ELSE @])
         ELSE IF c \in {"'", "\""}
         THEN Lex(s, k + 1, [a EXCEPT !.runs = Append(@, <<c>>), !.in_string = c])
         ELSE IF c = "("
         THEN Lex(s, k + 1, [a EXCEPT !.level = @ + 1])
         ELSE IF c = ")"
         THEN Lex(s, k + 1, [a EXCEPT !.level = @ - 1,
                                      !.underflow = @ \/ a.level = 0])
         ELSE IF c = "\\"
         THEN Lex(s, k + 1, [a EXCEPT !.bare_backslash = TRUE])
         ELSE Lex(s, k + 1, a)

LexOf(s) ==
    Lex(s, 1, [level |-> 0, underflow |-> FALSE, in_string |-> "",
               escaped |-> FALSE, bare_backslash |-> FALSE, runs |-> <<>>])

\* Balanced parentheses and terminated quotes, and no backslash outside a
\* string literal (the parser reads one there as an escape, the pretty-printer
\* does not).
ValidText(s) ==
    LET l == LexOf(s)
    IN l.level = 0 /\ ~l.underflow /\ l.in_string = "" /\ ~l.bare_backslash

QuotedRuns(s) == LexOf(s).runs

HasNewline(s) == \E k \in 1..Len(s) : s[k] = "\n"

\* C2: pretty-printing the output of the pretty-printer again, with the same
\* configuration, changes nothing, for every valid text.
PrettifyIdempotent ==
    (pc = "printed_again" /\ ValidText(text)) => out2 = out

\* C3: the quote-delimited runs of the output of prettify_sexp are, character
\* for character, those of its input.
StringLiteralsKept ==
    (pc = "printed" /\ cfg.op = "prettify_sexp") => QuotedRuns(out) = QuotedRuns(text)

\* C4: with break_inc <= 0 the output of prettify_sexp and of to_str holds no
\* newline.
NoNewlineWhenFlat ==
    (pc = "printed" /\ cfg.break_inc <= 0) => ~HasNewline(out)

\* C4 witness: a tree serialized with break_inc <= 0 whose serialization
\* with break_inc = 1 does hold a newline.
NoNewlineWhenFlatWitness ==
    /\ pc = "printed"
    /\ cfg.op = "to_str"
    /\ cfg.break_inc <= 0
    /\ \E k \in 1..Len(ret.self.v) : IsList(ret.self.v[k])
    /\ HasNewline(to_str(ret.self, cfg.quote_nums, cfg.quote_strs, 1,
                         cfg.spaces_per_level))
    /\ ~HasNewline(out)

(***************************************************************************)
(* SpecMut: a Sexp is constructed from a raw nested list or from a text,   *)
(* then append, extend and index assignment are called on it or on a Sexp  *)
(* nested in it.  A call on a nested Sexp is a call through a reference    *)
(* the caller took from the tree; it is named by the path of that Sexp.    *)
(***************************************************************************)
StrA == PyStr(<<"a">>)

\* The raw lists handed to the constructor and to the mutators: empty,
\* nested two deep, and holding a Sexp next to a raw list nested three deep.
RawLists ==
    { PyList(<<>>),
      PyList(<<StrA, PyList(<<StrA>>)>>),
      PyList(<<PySexp(<<StrA>>), PyList(<<PyList(<<PyInt(1)>>)>>)>>) }

\* The values handed to append and to index assignment.
Items == RawLists \cup {StrA, PySexp(<<StrA>>)}

\* The texts handed to the constructor.
MutTexts == { <<"(", "a", ")">>, <<"(", "(", ")", ")", "(", ")">> }

InitMut ==
    /\ pc = "new"
    /\ text = <<>>
    /\ parser = ParserStart(<<>>)
    /\ ret = Pending
    /\ cfg = DefaultCfg
    /\ out = <<>>
    /\ ret2 = Pending
    /\ out2 = <<>>
    /\ obj = NoTree
    /\ nops = 0
    /\ call = NoCall
    /\ query = NoQuery
    /\ found = <<>>
    /\ visited = <<>>
    /\ heap = NoHeap
    /\ found2 = <<>>
    /\ printer = NoPrinter

\* obj = Sexp(raw)
NewFromList ==
    /\ pc = "new"
    /\ \E raw \in RawLists : obj' = SexpOfList(raw)
    /\ pc' = "live"
    /\ UNCHANGED <<text, parser, ret, cfg, out, ret2, out2, nops, call, query, found, visited, heap, found2, printer>>

\* obj = Sexp(text)
NewFromText ==
    /\ pc = "new"
    /\ \E t \in MutTexts :
         /\ SexpOfText(t).error = "none"
         /\ text' = t
         /\ ret' = SexpOfText(t)
         /\ obj' = SexpOfText(t).self
    /\ pc' = "live"
    /\ UNCHANGED <<parser, cfg, out, ret2, out2, nops, call, query, found, visited, heap, found2, printer>>

\* A mutator may be called on the Sexp at path p.
CanCall(p) == pc = "live" /\ nops < MaxOps /\ p \in SexpPaths(obj)

\* s.append(item), s the Sexp at path p
AppendCall ==
    /\ \E p \in SexpPaths(obj), item \in Items :
         /\ CanCall(p)
         /\ obj' = ReplaceAt(obj, p, append(NodeAt(obj, p), item))
         /\ call' = [op |-> "append", path |-> p, key |-> 0, arg |-> item]
    /\ nops' = nops + 1
    /\ UNCHANGED <<pc, text, parser, ret, cfg, out, ret2, out2, query, found, visited, heap, found2, printer>>

\* s.extend(iterable), s the Sexp at path p
ExtendCall ==
    /\ \E p \in SexpPaths(obj), iterable \in RawLists :
         /\ CanCall(p)
         /\ obj' = ReplaceAt(obj, p, extend(NodeAt(obj, p), iterable))
         /\ call' = [op |-> "extend", path |-> p, key |-> 0, arg |-> iterable]
    /\ nops' = nops + 1
    /\ UNCHANGED <<pc, text, parser, ret, cfg, out, ret2, out2, query, found, visited, heap, found2, printer>>

\* s[key] = value, s the Sexp at path p
SetItemCall ==
    /\ \E p \in SexpPaths(obj), value \in Items :
         /\ CanCall(p)
         /\ \E key \in 1..Len(NodeAt(obj, p).v) :
              /\ obj' = ReplaceAt(obj, p, setitem(NodeAt(obj, p), key, value))
              /\ call' = [op |-> "setitem", path |-> p, key |-> key, arg |-> value]
    /\ nops' = nops + 1
    /\ UNCHANGED <<pc, text, parser, ret, cfg, out, ret2, out2, query, found, visited, heap, found2, printer>>

NextMut ==
    \/ NewFromList
    \/ NewFromText
    \/ AppendCall
    \/ ExtendCall
    \/ SetItemCall

SpecMut == InitMut /\ [][NextMut]_vars

\* Every list of the tree, at any depth, is a Sexp.
RECURSIVE AllSexp(_)
AllSexp(x) ==
    IsList(x) => (IsSexp(x) /\ \A k \in 1..Len(x.v) : AllSexp(x.v[k]))

\* A raw list that holds a raw list.
NestedRaw(x) ==
    /\ IsList(x) /\ ~IsSexp(x)
    /\ \E k \in 1..Len(x.v) : IsList(x.v[k]) /\ ~IsSexp(x.v[k])

\* C10: after construction and after any sequence of append, extend and
\* index assignment with raw nested lists, no list of the tree is a raw list.
Normalized == pc = "live" => AllSexp(obj)

\* C10 witness: the second call on a tree assigned a raw nested list to an
\* index of a Sexp nested in it, and every list of the tree is a Sexp.
NormalizedWitness ==
    /\ pc = "live"
    /\ nops >= 2
    /\ call.op = "setitem"
    /\ call.path # <<>>
    /\ NestedRaw(call.arg)
    /\ AllSexp(obj)

(***************************************************************************)
(* SpecValue: parse_value(token) of a bare token, and the same token       *)
(* flushed by the parser from inside a pair of parentheses.                *)
(***************************************************************************)
InitValue == InitText(ValueAlphabet, MaxTokenLen)

\* ret = parse_value(text)
Classify ==
    /\ pc = "start"
    /\ ret' = ParseValueCall(text)
    /\ pc' = "classified"
    /\ UNCHANGED <<text, parser, cfg, out, ret2, out2, obj, nops, call, query, found, visited, heap, found2, printer>>

\* ret = Sexp("(" + text + ")")
ParseToken ==
    /\ pc = "start"
    /\ parser' = Flush(ParseAll(ParserStart(<<"(">> \o text \o <<")">>)))
    /\ ret' = SexpOfText(<<"(">> \o text \o <<")">>)
    /\ pc' = "flushed"
    /\ UNCHANGED <<text, cfg, out, ret2, out2, obj, nops, call, query, found, visited, heap, found2, printer>>

NextValue ==
    \/ Classify
    \/ ParseToken

SpecValue == InitValue /\ [][NextValue]_vars

\* Tokens whose classification is known from the Python language reference.
KnownValues ==
    << <<<<"1", "1">>, PyInt(11)>>,
       <<<<"-", "1">>, PyInt(-1)>>,
       <<<<"0", "x", "1", "0">>, PyInt(16)>>,
       <<<<"0", "x", "f">>, PyInt(15)>>,
       <<<<"0", "o", "1">>, PyInt(1)>>,
       <<<<"0", "b", "1">>, PyInt(1)>>,
       <<<<"0", "b", "a">>, PyStr(<<"0", "b", "a">>)>>,
       <<<<"0", "o", "1", "0">>, PyInt(8)>>,
       <<<<"0", "b", "1", "1">>, PyInt(3)>>,
       <<<<"1", "_", "0">>, PyInt(10)>>,
       <<<<"0", "1">>, PyFloat(FALSE, 1, 0)>>,
       <<<<"1", ".", "1">>, PyFloat(FALSE, 11, -1)>>,
       <<<<".", "1">>, PyFloat(FALSE, 1, -1)>>,
       <<<<"1", "e", "1">>, PyFloat(FALSE, 1, 1)>>,
       <<<<"-", "0", ".">>, PyFloat(TRUE, 0, 0)>>,
       <<<<"i", "n", "f">>, PyInf(FALSE)>>,
       <<<<"n", "a", "n">>, PyNan>>,
       <<<<"0", "x">>, PyStr(<<"0", "x">>)>>,
       <<<<"1", "_">>, PyStr(<<"1", "_">>)>>,
       <<<<"1", "e">>, PyStr(<<"1", "e">>)>>,
       <<<<"-">>, PyStr(<<"-">>)>>,
       <<<<"a">>, PyStr(<<"a">>)>> >>

\* C13: a token is classified by ordered fallback: an int when the whole
\* token is an integer literal (sign, base from a 0x / 0o / 0b prefix), else
\* a float when it is a float literal, else the token itself; no call raises;
\* the empty token comes back as the empty string; and the parser's flush
\* appends exactly this classification.
ClassifiedByFallback ==
    /\ pc = "classified" =>
         /\ ret.error = "none"
         /\ text = <<>> => ret.self = PyStr(<<>>)
         /\ ret.self.t \in {"int", "float", "str"}
         /\ ret.self.t = "int" <=> (text # <<>> /\ IsIntLiteral(text))
         /\ ret.self.t = "float" <=>
               (text # <<>> /\ ~IsIntLiteral(text) /\ IsFloatLiteral(text))
         /\ ret.self.t = "int" => ret.self.v = IntValue(text)
         /\ ret.self.t = "float" => ret.self = FloatValue(text)
         /\ ret.self.t = "str" => ret.self.v = text
         /\ \A k \in 1..Len(KnownValues) :
               text = KnownValues[k][1] => ret.self = KnownValues[k][2]
    /\ pc = "flushed" =>
         /\ ret.error = "none"
         /\ ret.self.v = IF text = <<>> THEN <<>> ELSE <<parse_value(text)>>
         /\ \A k \in 1..Len(KnownValues) :
               text = KnownValues[k][1] => ret.self.v = <<KnownValues[k][2]>>

\* C13 witness: the parser flushed a token that is not an integer literal
\* but is a float literal (such as 01) and the element is that float.
ClassifiedByFallbackWitness ==
    /\ pc = "flushed"
    /\ text # <<>>
    /\ text[1] = "0"
    /\ ~IsIntLiteral(text)
    /\ IsFloatLiteral(text)
    /\ ret.self.v = <<FloatValue(text)>>

(***************************************************************************)
(* SpecTree: to_str, under every configuration, of a Sexp tree drawn from  *)
(* the trees of at most MaxNodes nodes over a few scalars.                 *)
(***************************************************************************)
\* The scalars of the trees: strings (a tag, a word already in double quotes,
\* a lone single quote), ints and a float.
TreeScalars ==
    { PyStr(<<"+">>), PyStr(<<"\"", "a", "\"">>), PyStr(<<"'">>),
      PyInt(1), PyInt(2), PyFloat(FALSE, 15, -1) }

\* Nodes(S, n): the values of exactly n nodes over the scalars S (a scalar,
\* or a Sexp and everything in it); Forest(S, n): the sequences of values of
\* n nodes in all.
RECURSIVE Nodes(_, _), Forest(_, _)
Nodes(S, n) ==
    IF n = 1 THEN S \cup {PySexp(<<>>)}
    ELSE {PySexp(f) : f \in Forest(S, n - 1)}

Forest(S, n) ==
    IF n = 0 THEN {<<>>}
    ELSE UNION {{<<x>> \o f : x \in Nodes(S, k), f \in Forest(S, n - k)} : k \in 1..n}

\* The Sexp trees of at most n nodes over the scalars S.
TreesUpTo(S, n) == UNION {{PySexp(f) : f \in Forest(S, k)} : k \in 0..(n - 1)}

InitTree ==
    /\ obj \in TreesUpTo(TreeScalars, MaxNodes)
    /\ pc = "tree"
    /\ text = <<>>
    /\ parser = ParserStart(<<>>)
    /\ ret = Pending
    /\ cfg = DefaultCfg
    /\ out = <<>>
    /\ ret2 = Pending
    /\ out2 = <<>>
    /\ nops = 0
    /\ call = NoCall
    /\ query = NoQuery
    /\ found = <<>>
    /\ visited = <<>>
    /\ heap = NoHeap
    /\ found2 = <<>>
    /\ printer = NoPrinter

\* out = obj.to_str(quote_nums=qn, quote_strs=qs, break_inc=bi, spaces_per_level=spl)
ToStrTree ==
    /\ pc = "tree"
    /\ \E qn \in BOOLEAN, qs \in BOOLEAN, bi \in BreakIncs, spl \in SpacesPerLevel :
         /\ cfg' = [op |-> "to_str", quote_nums |-> qn, quote_strs |-> qs,
                    break_inc |-> bi, spaces_per_level |-> spl]
         /\ out' = to_str(obj, qn, qs, bi, spl)
    /\ pc' = "printed"
    /\ UNCHANGED <<text, parser, ret, ret2, out2, obj, nops, call, query, found, visited, heap, found2, printer>>

NextTree == ToStrTree

SpecTree == InitTree /\ [][NextTree]_vars

\* The text the claim gives for the element at index k of a list: a list is
\* serialized in turn; the first scalar is bare; a later scalar is in double
\* quotes exactly when the switch of its type is on and its text does not
\* already begin and end with the same quote character.
RECURSIVE Emitted(_, _)
Emitted(x, first) ==
    IF IsList(x)
    THEN IF x.v = <<>> THEN <<"(", ")">>
         ELSE prettify_sexp(
                  <<"(">> \o JoinSpace([k \in 1..Len(x.v) |-> Emitted(x.v[k], k = 1)])
                          \o <<")">>,
                  cfg.break_inc, cfg.spaces_per_level)
    ELSE LET bare == Str(x)
             switch == IF x.t \in {"int", "float"} THEN cfg.quote_nums
                       ELSE cfg.quote_strs
             quoted == /\ Len(bare) >= 1
                       /\ bare[1] \in {"'", "\""}
                       /\ bare[Len(bare)] = bare[1]
         IN IF ~first /\ switch /\ ~quoted
            THEN <<"\"">> \o bare \o <<"\"">>
            ELSE bare

PlusOneTwo == PySexp(<<PyStr(<<"+">>), PyInt(1), PyInt(2)>>)

\* C14: to_str emits the first scalar of a list bare, every later scalar in
\* double quotes exactly when its switch is on and it is not already quoted,
\* and lists recursively; [+, 1, 2] gives (+ "1" "2") with quote_nums and
\* (+ 1 2) without.
SerializerQuoting ==
    pc = "printed" =>
      /\ out = Emitted(obj, TRUE)
      /\ (obj = PlusOneTwo /\ cfg.quote_nums) =>
            out = <<"(", "+", " ", "\"", "1", "\"", " ", "\"", "2", "\"", ")">>
      /\ (obj = PlusOneTwo /\ ~cfg.quote_nums) =>
            out = <<"(", "+", " ", "1", " ", "2", ")">>

\* C14 witness: a list whose first element is a number and whose later
\* elements are a number and an already quoted string, serialized with both
\* switches on: the first number is bare, the later one is quoted.
SerializerQuotingWitness ==
    /\ pc = "printed"
    /\ cfg.quote_nums
    /\ cfg.quote_strs
    /\ obj = PySexp(<<PyInt(1), PyInt(2), PyStr(<<"\"", "a", "\"">>)>>)
    /\ out = <<"(", "1", " ", "\"", "2", "\"", " ", "\"", "a", "\"", ")">>

\* The number of empty lists in a tree, at any depth.
RECURSIVE SumSeq(_)
SumSeq(q) == IF q = <<>> THEN 0 ELSE Head(q) + SumSeq(Tail(q))

RECURSIVE EmptyLists(_)
EmptyLists(x) ==
    IF ~IsList(x) THEN 0
    ELSE IF x.v = <<>> THEN 1
    ELSE SumSeq([k \in 1..Len(x.v) |-> EmptyLists(x.v[k])])

\* The number of places of a text where "()" stands.
EmptyParens(s) ==
    Cardinality({k \in 1..(Len(s) - 1) : s[k] = "(" /\ s[k + 1] = ")"})

\* C15: under every configuration the empty list is serialized as "()": the
\* root alone gives exactly "()", and the text of a tree holds one "()" for
\* each empty list nested in it.
EmptyListIsParens ==
    pc = "printed" =>
      /\ obj.v = <<>> => out = <<"(", ")">>
      /\ EmptyParens(out) = EmptyLists(obj)

\* C15 witness: an empty list nested after a scalar in a list that is itself
\* nested, serialized with line breaks; its "()" is in the text.
EmptyListIsParensWitness ==
    /\ pc = "printed"
    /\ cfg.break_inc = 1
    /\ Len(obj.v) = 1
    /\ IsList(obj.v[1])
    /\ Len(obj.v[1].v) = 2
    /\ obj.v[1].v[2] = PySexp(<<>>)
    /\ EmptyParens(out) = 1

(***************************************************************************)
(* SpecSearch: one call of search on a Sexp tree: every tree of at most    *)
(* MaxSearchNodes nodes over three scalars and a few larger trees, with    *)
(* patterns of each strategy and every max_depth up to MaxDepthArg.        *)
(***************************************************************************)
StrB == PyStr(<<"b">>)
StrPad == PyStr(<<"p", "a", "d">>)
StrModule == PyStr(<<"m", "o", "d", "u", "l", "e">>)

SearchScalars == {StrA, StrB, PyInt(1)}

\* [module, TEST, [pad, 1], [pad, 2]]
PadTree ==
    PySexp(<<StrModule, PyStr(<<"T", "E", "S", "T">>),
             PySexp(<<StrPad, PyInt(1)>>), PySexp(<<StrPad, PyInt(2)>>)>>)

\* Larger trees: lists nested three deep with repeated tags, a list of
\* lists, lists whose first element is a list or a number.
LargerTrees ==
    { PadTree,
      PySexp(<<StrA, PySexp(<<StrB, PySexp(<<StrA, PySexp(<<StrB>>)>>)>>),
               PySexp(<<StrA, StrB>>)>>),
      PySexp(<<PySexp(<<StrA, PyInt(1)>>), PySexp(<<StrB>>), PySexp(<<StrA>>),
               PySexp(<<>>)>>),
      PySexp(<<StrA, PySexp(<<StrA, StrB>>), StrB, PySexp(<<StrB, StrA>>),
               PySexp(<<StrA>>)>>),
      PySexp(<<StrB, PySexp(<<PySexp(<<StrA>>), PySexp(<<StrA, StrB>>)>>),
               PySexp(<<PyInt(1), PySexp(<<StrA, PySexp(<<StrA>>)>>)>>)>>),
      PySexp(<<StrModule, PySexp(<<StrA, PySexp(<<StrPad, PyInt(1)>>)>>),
               PySexp(<<StrPad, PySexp(<<StrPad>>)>>)>>) }

SearchTrees == TreesUpTo(SearchScalars, MaxSearchNodes) \cup LargerTrees

\* The patterns given with each strategy.
KeyPathPatterns ==
    { PyStr(<<"a">>), PyStr(<<"b">>), PyStr(<<"1">>), PyStr(<<>>),
      PyStr(<<"a", "/", "b">>), PyStr(<<"a", "/", "a">>),
      PyStr(<<"/", "a">>), PyStr(<<"/", "b">>), PyStr(<<"/", "a", "/", "b">>),
      PyStr(<<"/", "a", "/", "a">>), StrPad,
      PyStr(<<"/", "m", "o", "d", "u", "l", "e", "/", "p", "a", "d">>) }
ValuePatterns ==
    { StrA, StrB, StrPad, PyInt(1), PyFloat(FALSE, 1, 0), PySexp(<<StrA>>) }
FirstValuePatterns == { PyStr(<<"A">>), StrB, PyStr(<<"P", "A", "D">>) }
ContainsPatterns == { StrA, PyInt(1), PySexp(<<StrA>>), PySexp(<<>>) }
FunctionPatterns ==
    { PyFunction("len_gt_1"), PyFunction("first_is_a"), PyFunction("has_list"),
      PyFunction("always") }
RegexPatterns ==
    { PyStr(<<"^", "a">>), PyStr(<<".">>), PyRegex(<<"^", "p", "a">>),
      PyRegex(<<"b", "$">>) }
PathPatterns ==
    { PathList(<<>>), PathList(<<0>>), PathList(<<1>>), PathList(<<2>>),
      PathList(<<0, 0>>), PathList(<<1, 1>>) }

\* The values of max_depth.
Depths == {NoDepth} \cup {Depth(d) : d \in 0..MaxDepthArg}

InitSearch ==
    /\ obj \in SearchTrees
    /\ pc = "tree"
    /\ text = <<>>
    /\ parser = ParserStart(<<>>)
    /\ ret = Pending
    /\ cfg = DefaultCfg
    /\ out = <<>>
    /\ ret2 = Pending
    /\ out2 = <<>>
    /\ nops = 0
    /\ call = NoCall
    /\ query = NoQuery
    /\ found = <<>>
    /\ visited = <<>>
    /\ heap = NoHeap
    /\ found2 = <<>>
    /\ printer = NoPrinter

\* The strategies, and the patterns given with each.
SearchTypes ==
    {"key_path", "value", "first_value", "contains", "function", "regex", "path"}

PatternsOf(search_type) ==
    CASE search_type = "key_path" -> KeyPathPatterns
      [] search_type = "value" -> ValuePatterns
      [] search_type = "first_value" -> FirstValuePatterns
      [] search_type = "contains" -> ContainsPatterns
      [] search_type = "function" -> FunctionPatterns
      [] search_type = "regex" -> RegexPatterns
      [] search_type = "path" -> PathPatterns

\* found = obj.search(pattern, search_type=..., max_depth=...)
Search ==
    /\ pc = "tree"
    /\ \E search_type \in SearchTypes :
         \E pattern \in PatternsOf(search_type), max_depth \in Depths :
           /\ query' = [pattern |-> pattern, search_type |-> search_type,
                        max_depth |-> max_depth]
           /\ found' = search(obj, pattern, search_type, max_depth)
           /\ visited' = LET all == Processed(obj, pattern, search_type, max_depth)
                         IN [k \in 1..Len(all) |-> all[k].path]
    /\ pc' = "searched"
    /\ UNCHANGED <<text, parser, ret, cfg, out, ret2, out2, obj, nops, call, heap,
                   found2, printer>>

NextSearch == Search

SpecSearch == InitSearch /\ [][NextSearch]_vars

(***************************************************************************)
(* Properties of search, checked under SpecSearch.                         *)
(***************************************************************************)
\* The path leads somewhere in the tree: every index but the last addresses a
\* list, and every index is within its list.
RECURSIVE ValidPath(_, _)
ValidPath(tree, path) ==
    \/ path = <<>>
    \/ /\ IsList(tree)
       /\ Head(path) >= 0
       /\ Head(path) < Len(tree.v)
       /\ ValidPath(tree.v[Head(path) + 1], Tail(path))

\* The node a valid path leads to.
RECURSIVE Follow(_, _)
Follow(tree, path) ==
    IF path = <<>> THEN tree ELSE Follow(tree.v[Head(path) + 1], Tail(path))

\* Path p comes before path q in pre-order: p is a proper prefix of q, or p
\* has the smaller index where they first differ.
RECURSIVE PreOrderBefore(_, _)
PreOrderBefore(p, q) ==
    IF p = <<>> THEN q # <<>>
    ELSE IF q = <<>> THEN FALSE
    ELSE IF Head(p) # Head(q) THEN Head(p) < Head(q)
    ELSE PreOrderBefore(Tail(p), Tail(q))

ChildrenOneLevel(tree) ==
    \A k \in 1..Len(tree.v) :
        IsList(tree.v[k]) => \A j \in 1..Len(tree.v[k].v) : ~IsList(tree.v[k].v[j])

\* Child k of the tree is a list whose first element equals the pattern.
ChildHasFirst(tree, k, pattern) ==
    /\ IsList(tree.v[k])
    /\ tree.v[k].v # <<>>
    /\ PyEq(tree.v[k].v[1], pattern)

\* The children whose first element equals the pattern, from index k on, each
\* with its path, in index order.
RECURSIVE ChildrenWithFirst(_, _, _)
ChildrenWithFirst(tree, pattern, k) ==
    IF k > Len(tree.v) THEN <<>>
    ELSE (IF ChildHasFirst(tree, k, pattern)
          THEN <<[path |-> <<k - 1>>, node |-> tree.v[k]]>>
          ELSE <<>>)
         \o ChildrenWithFirst(tree, pattern, k + 1)

\* A value search, without max_depth, on a list whose child lists are nested
\* one level, for a pattern that is the first element of one of them.
ValueSearchOfChildTag ==
    /\ pc = "searched"
    /\ query.search_type = "value"
    /\ query.max_depth = NoDepth
    /\ ChildrenOneLevel(obj)
    /\ \E k \in 1..Len(obj.v) : ChildHasFirst(obj, k, query.pattern)

\* C17 as stated: the search returns exactly the children whose first element
\* equals the pattern, in index order, and nothing else.
ValueSearchReturnsChildrenOnly ==
    ValueSearchOfChildTag => found = ChildrenWithFirst(obj, query.pattern, 1)

\* C17: the search returns the list itself when its own first element equals
\* the pattern, then exactly the children whose first element equals the
\* pattern, in index order, and nothing else.
ValueSearchReturnsChildren ==
    ValueSearchOfChildTag =>
        found = (IF PyEq(obj.v[1], query.pattern)
                 THEN <<[path |-> <<>>, node |-> obj]>>
                 ELSE <<>>)
                \o ChildrenWithFirst(obj, query.pattern, 1)

\* C17 witness: the list's own first element and the first elements of two of
\* its children equal the pattern; the list and both children are returned.
ValueSearchReturnsChildrenWitness ==
    /\ ValueSearchOfChildTag
    /\ ~IsList(obj.v[1])
    /\ Len(found) = 3
    /\ found[1].path = <<>>
    /\ Len(found[2].path) = 1
    /\ Len(found[3].path) = 1

\* The paths of the non-empty lists of a tree, in pre-order.
RECURSIVE NonEmptyListPaths(_, _)
NonEmptyListPaths(node, path) ==
    IF ~IsList(node) \/ node.v = <<>> THEN <<>>
    ELSE <<path>> \o
         Concat([k \in 1..Len(node.v) |->
                    NonEmptyListPaths(node.v[k], Append(path, k - 1))])

\* The KeyPath of the non-empty list at a path: the stringified first
\* elements of the lists from the root down to it.
KeyPathOf(tree, path) ==
    [j \in 1..(Len(path) + 1) |-> KeyStr(Follow(tree, SubSeq(path, 1, j - 1)).v[1])]

\* The keys of a pattern: the text between its slashes, those at its two
\* ends set aside.
RECURSIVE KeysBetweenSlashes(_, _)
KeysBetweenSlashes(s, key) ==
    IF s = <<>> THEN <<key>>
    ELSE IF Head(s) = "/" THEN <<key>> \o KeysBetweenSlashes(Tail(s), <<>>)
    ELSE KeysBetweenSlashes(Tail(s), Append(key, Head(s)))

RECURSIVE TrimSlashes(_)
TrimSlashes(s) ==
    IF s # <<>> /\ s[1] = "/" THEN TrimSlashes(Tail(s))
    ELSE IF s # <<>> /\ s[Len(s)] = "/" THEN TrimSlashes(SubSeq(s, 1, Len(s) - 1))
    ELSE s

PatternKeys(pattern) == KeysBetweenSlashes(TrimSlashes(pattern.v), <<>>)

\* The last entries of the KeyPath are the keys.
EndsWithKeys(keypath, keys) ==
    /\ Len(keypath) >= Len(keys)
    /\ SubSeq(keypath, Len(keypath) - Len(keys) + 1, Len(keypath)) = keys

\* The matches made of the given paths of the tree.
MatchesAt(tree, paths) ==
    [k \in 1..Len(paths) |-> [path |-> paths[k], node |-> Follow(tree, paths[k])]]

\* A key_path search, without max_depth, for a pattern that does not start
\* with a slash.
RelativeSearch ==
    /\ pc = "searched"
    /\ query.search_type = "key_path"
    /\ query.max_depth = NoDepth
    /\ ~(query.pattern.v # <<>> /\ query.pattern.v[1] = "/")

\* C18: a relative key_path search returns, in pre-order, exactly the
\* non-empty lists, at any depth and below a match or not, whose KeyPath ends
\* with the keys of the pattern; "pad" in [module, TEST, [pad, 1], [pad, 2]]
\* gives the paths [2] and [3].
RelativeKeyPath ==
    RelativeSearch =>
      LET keys == PatternKeys(query.pattern)
          Ends(p) == EndsWithKeys(KeyPathOf(obj, p), keys)
      IN /\ found = MatchesAt(obj, SelectSeq(NonEmptyListPaths(obj, <<>>), Ends))
         /\ (obj = PadTree /\ query.pattern = StrPad) =>
               [k \in 1..Len(found) |-> found[k].path] = << <<2>>, <<3>> >>

\* C18 witness: a relative search for two keys returned a list and a list
\* nested inside that match.
RelativeKeyPathWitness ==
    /\ RelativeSearch
    /\ Len(PatternKeys(query.pattern)) = 2
    /\ \E j \in 1..Len(found) : \E k \in 1..Len(found) :
          /\ Len(found[j].path) < Len(found[k].path)
          /\ SubSeq(found[k].path, 1, Len(found[j].path)) = found[j].path

\* A key_path search, without max_depth, for a pattern that starts with a
\* slash.
AbsoluteSearch ==
    /\ pc = "searched"
    /\ query.search_type = "key_path"
    /\ query.max_depth = NoDepth
    /\ query.pattern.v # <<>>
    /\ query.pattern.v[1] = "/"

\* The first sequence is a strict prefix of the second.
StrictPrefix(a, b) == Len(a) < Len(b) /\ SubSeq(b, 1, Len(a)) = a

\* The members of a sequence.
Range(f) == {f[k] : k \in 1..Len(f)}

\* C19: an absolute key_path search returns, in pre-order, exactly the
\* non-empty lists whose KeyPath is the keys of the pattern, one for one from
\* the root; a list below the root is processed only when the KeyPath of the
\* list that holds it is a strict prefix of the keys; and when the first key
\* is not the tag of the root, nothing is returned.
AbsoluteKeyPath ==
    AbsoluteSearch =>
      LET keys == PatternKeys(query.pattern)
          Same(p) == KeyPathOf(obj, p) = keys
      IN /\ found = MatchesAt(obj, SelectSeq(NonEmptyListPaths(obj, <<>>), Same))
         /\ \A p \in Range(visited) :
               p # <<>> =>
                 StrictPrefix(KeyPathOf(obj, SubSeq(p, 1, Len(p) - 1)), keys)
         /\ (IsList(obj) /\ obj.v # <<>> /\ keys[1] # KeyStr(obj.v[1])) =>
               found = <<>> /\ visited = << <<>> >>

\* C19 witness: an absolute search for two keys returned a list below the
\* root and left another non-empty list of the tree unprocessed.
AbsoluteKeyPathWitness ==
    /\ AbsoluteSearch
    /\ Len(PatternKeys(query.pattern)) = 2
    /\ \E k \in 1..Len(found) : Len(found[k].path) = 1
    /\ Range(NonEmptyListPaths(obj, <<>>)) \ Range(visited) # {}

\* A search with max_depth given.
DepthSearch == pc = "searched" /\ query.max_depth.some

\* The same search without max_depth.
Unrestricted == search(obj, query.pattern, query.search_type, NoDepth)

\* C20: with max_depth = d, whatever the strategy, every returned path is
\* shorter than d (so d = 0 returns nothing), and the result is the result
\* of the same search without max_depth, kept in order, with only the paths
\* shorter than d.
MaxDepthCuts ==
    DepthSearch =>
      LET d == query.max_depth.d
          Short(m) == Len(m.path) < d
      IN /\ \A k \in 1..Len(found) : Len(found[k].path) < d
         /\ d = 0 => found = <<>>
         /\ found = SelectSeq(Unrestricted, Short)

\* C20 witness: a search with max_depth returned a list below the root and
\* left out a deeper list that the search without max_depth returns.
MaxDepthCutsWitness ==
    /\ DepthSearch
    /\ \E k \in 1..Len(found) : found[k].path # <<>>
    /\ Len(found) < Len(Unrestricted)

\* A search by path, without max_depth.
PathSearch ==
    /\ pc = "searched"
    /\ query.search_type = "path"
    /\ query.max_depth = NoDepth

\* The index sequence a path pattern holds.
IndicesOf(pattern) == [k \in 1..Len(pattern.v) |-> pattern.v[k].v]

\* The path addresses a non-empty list of the tree.
AddressesList(tree, path) ==
    /\ ValidPath(tree, path)
    /\ IsList(Follow(tree, path))
    /\ Follow(tree, path).v # <<>>

\* C21: a search by path returns the one pair of the path and the node it
\* addresses when that node is a non-empty list of the tree, and nothing
\* otherwise; and the path of any match of any search, searched for by path,
\* returns that match alone.
PathSearchReturnsNode ==
    /\ PathSearch =>
         LET p == IndicesOf(query.pattern)
         IN /\ Len(found) <= 1
            /\ found = IF AddressesList(obj, p)
                       THEN <<[path |-> p, node |-> Follow(obj, p)]>>
                       ELSE <<>>
    /\ pc = "searched" =>
         \A k \in 1..Len(found) :
            search(obj, PathList(found[k].path), "path", NoDepth) = <<found[k]>>

\* C21 witness: a search by a path of two indices returned the list nested
\* two deep that it addresses, in a tree with other non-empty lists.
PathSearchReturnsNodeWitness ==
    /\ PathSearch
    /\ Len(found) = 1
    /\ Len(found[1].path) = 2
    /\ Len(NonEmptyListPaths(obj, <<>>)) >= 3

\* A search with strategy contains, without max_depth.
ContainsSearch ==
    /\ pc = "searched"
    /\ query.search_type = "contains"
    /\ query.max_depth = NoDepth

\* The pattern equals an element of the list at the path.
IsDirectElement(tree, path, pattern) ==
    LET node == Follow(tree, path)
    IN \E k \in 1..Len(node.v) : PyEq(node.v[k], pattern)

\* The pattern equals an element of a list nested, at any depth, in the list
\* at the path.
IsNestedElement(tree, path, pattern) ==
    \E q \in Range(NonEmptyListPaths(tree, <<>>)) :
       /\ StrictPrefix(path, q)
       /\ IsDirectElement(tree, q, pattern)

\* The paths of the matches.
FoundPaths == {found[k].path : k \in 1..Len(found)}

\* C22: a contains search returns, in pre-order, exactly the non-empty lists
\* one of whose own elements equals the pattern; a list that holds the
\* pattern only inside a nested list is not returned.
ContainsDirectOnly ==
    ContainsSearch =>
      LET Direct(p) == IsDirectElement(obj, p, query.pattern)
      IN /\ found = MatchesAt(obj, SelectSeq(NonEmptyListPaths(obj, <<>>), Direct))
         /\ \A p \in Range(NonEmptyListPaths(obj, <<>>)) :
               (IsNestedElement(obj, p, query.pattern) /\ ~Direct(p)) =>
                  p \notin FoundPaths

\* C22 witness: a contains search returned a nested list and not the list
\* around it, which holds the pattern only inside that nested list.
ContainsDirectOnlyWitness ==
    /\ ContainsSearch
    /\ \E p \in FoundPaths :
          /\ p # <<>>
          /\ SubSeq(p, 1, Len(p) - 1) \notin FoundPaths

(***************************************************************************)
(* Layout written by the pretty-printer, checked under SpecPretty.         *)
(***************************************************************************)
\* For each character of a text, whether it belongs to a string literal (its
\* delimiters included), as the pretty-printer reads it.
RECURSIVE StringMask(_, _, _, _)
StringMask(s, k, in_string, escaped) ==
    IF k > Len(s) THEN <<>>
    ELSE LET c == s[k] IN
         IF in_string # ""
         THEN <<TRUE>> \o
              StringMask(s, k + 1,
                         IF ~escaped /\ c # "\\" /\ c = in_string THEN "" ELSE in_string,
                         ~escaped /\ c = "\\")
         ELSE IF c \in {"'", "\""}
         THEN <<TRUE>> \o StringMask(s, k + 1, c, FALSE)
         ELSE <<FALSE>> \o StringMask(s, k + 1, "", FALSE)

\* Character a stands immediately before character b somewhere in the text,
\* both outside string literals.
Adjacent(s, a, b) ==
    LET mask == StringMask(s, 1, "", FALSE)
    IN \E k \in 1..(Len(s) - 1) :
          /\ ~mask[k] /\ ~mask[k + 1]
          /\ s[k] = a /\ s[k + 1] = b

\* prettify_sexp was called on a valid text with break_inc <= 0.
PrettifiedFlat ==
    /\ pc = "printed"
    /\ cfg.op = "prettify_sexp"
    /\ cfg.break_inc <= 0
    /\ ValidText(text)

\* C23: with break_inc <= 0 the output for a valid text is one line, and
\* outside string literals it has no space after an opening parenthesis, none
\* before a closing parenthesis and never two spaces in a row.
FlatLayout ==
    PrettifiedFlat =>
      /\ ~HasNewline(out)
      /\ ~Adjacent(out, "(", " ")
      /\ ~Adjacent(out, " ", ")")
      /\ ~Adjacent(out, " ", " ")

\* The nesting level before character k of a text: the opening less the
\* closing parentheses, outside string literals, among the characters before
\* it.
LevelBefore(s, k) ==
    LET mask == StringMask(s, 1, "", FALSE)
        Opens == {j \in 1..(k - 1) : ~mask[j] /\ s[j] = "("}
        Closes == {j \in 1..(k - 1) : ~mask[j] /\ s[j] = ")"}
    IN Cardinality(Opens) - Cardinality(Closes)

\* The positions of the newlines of a text.
Newlines(s) == {k \in 1..Len(s) : s[k] = "\n"}

\* Characters a..b of the text are all spaces.
AllSpaces(s, a, b) == \A j \in a..b : s[j] = " "

\* The opening parenthesis at position k of the output is due a line break:
\* it is outside a string literal, at a level above 0 that is a multiple of
\* break_inc.
BreakDue(s, k, break_inc) ==
    /\ s[k] = "("
    /\ ~StringMask(s, 1, "", FALSE)[k]
    /\ LevelBefore(s, k) > 0
    /\ LevelBefore(s, k) % break_inc = 0

\* prettify_sexp was called with break_inc > 0.
PrettifiedBroken ==
    /\ pc = "printed"
    /\ cfg.op = "prettify_sexp"
    /\ cfg.break_inc > 0

NoSpaceBeforeBreak ==
    PrettifiedBroken =>
      \A n \in Newlines(out) : n > 1 => out[n - 1] # " "

(***************************************************************************)
(* The serializer and the pretty-printer together, checked under SpecTree. *)
(***************************************************************************)
\* The single-line form of the tree: to_str with break_inc = 0.
FlatText == to_str(obj, cfg.quote_nums, cfg.quote_strs, 0, cfg.spaces_per_level)

\* C26: to_str under a configuration gives the text that prettify_sexp gives,
\* under that configuration, for the single-line form of the whole tree.
ToStrIsPrettifiedFlat ==
    pc = "printed" =>
      out = prettify_sexp(FlatText, cfg.break_inc, cfg.spaces_per_level)

(***************************************************************************)
(* SpecPure: to_str or search is called on a Sexp whose nested lists are   *)
(* Sexp objects or plain lists (list.insert puts a plain list in a Sexp),  *)
(* and then the same call is made again.  The tree is kept as objects of   *)
(* the store; obj is the tree the caller's reference stands for.           *)
(***************************************************************************)
PureLeaves == {PyList(<<StrA>>), PySexp(<<StrA>>), PyList(<<>>)}

PureElements ==
    PureLeaves \cup {PyList(<<StrB, l>>) : l \in PureLeaves}
               \cup {PySexp(<<StrB, PyList(<<StrA>>)>>), PyInt(1)}

PureTrees ==
    {PySexp(<<StrA>> \o f) : f \in UNION {[1..k -> PureElements] : k \in 0..MaxPureWidth}}

InitPure ==
    /\ obj \in PureTrees
    /\ heap = Store(obj)
    /\ pc = "tree"
    /\ text = <<>>
    /\ parser = ParserStart(<<>>)
    /\ ret = Pending
    /\ cfg = DefaultCfg
    /\ out = <<>>
    /\ ret2 = Pending
    /\ out2 = <<>>
    /\ nops = 0
    /\ call = NoCall
    /\ query = NoQuery
    /\ found = <<>>
    /\ visited = <<>>
    /\ found2 = <<>>
    /\ printer = NoPrinter

\* out = obj.to_str(quote_nums=qn, quote_strs=qs, break_inc=bi, spaces_per_level=spl)
CallToStr ==
    /\ pc = "tree"
    /\ \E qn \in BOOLEAN, qs \in BOOLEAN, bi \in BreakIncs, spl \in SpacesPerLevel :
         /\ cfg' = [op |-> "to_str", quote_nums |-> qn, quote_strs |-> qs,
                    break_inc |-> bi, spaces_per_level |-> spl]
         /\ out' = to_str(obj, qn, qs, bi, spl)
    /\ heap' = [heap EXCEPT !.cells = ToStrWrites(heap.cells, heap.root)]
    /\ obj' = Load(heap'.cells, heap'.root)
    /\ pc' = "printed"
    /\ UNCHANGED <<text, parser, ret, ret2, out2, nops, call, query, found, visited,
                   found2, printer>>

\* out2 = obj.to_str(...) with the arguments of the first call
RepeatToStr ==
    /\ pc = "printed"
    /\ out2' = to_str(obj, cfg.quote_nums, cfg.quote_strs, cfg.break_inc,
                      cfg.spaces_per_level)
    /\ heap' = [heap EXCEPT !.cells = ToStrWrites(heap.cells, heap.root)]
    /\ obj' = Load(heap'.cells, heap'.root)
    /\ pc' = "printed_again"
    /\ UNCHANGED <<text, parser, ret, cfg, out, ret2, nops, call, query, found, visited,
                   found2, printer>>

\* found = obj.search(pattern, search_type=..., max_depth=...)
CallSearch ==
    /\ pc = "tree"
    /\ \E search_type \in SearchTypes :
         \E pattern \in PatternsOf(search_type), max_depth \in Depths :
           /\ query' = [pattern |-> pattern, search_type |-> search_type,
                        max_depth |-> max_depth]
           /\ found' = search(obj, pattern, search_type, max_depth)
    /\ heap' = [heap EXCEPT !.cells = SearchWrites(heap.cells, heap.root)]
    /\ obj' = Load(heap'.cells, heap'.root)
    /\ pc' = "searched"
    /\ UNCHANGED <<text, parser, ret, cfg, out, ret2, out2, nops, call, visited,
                   found2, printer>>

\* found2 = obj.search(...) with the arguments of the first call
RepeatSearch ==
    /\ pc = "searched"
    /\ found2' = search(obj, query.pattern, query.search_type, query.max_depth)
    /\ heap' = [heap EXCEPT !.cells = SearchWrites(heap.cells, heap.root)]
    /\ obj' = Load(heap'.cells, heap'.root)
    /\ pc' = "searched_again"
    /\ UNCHANGED <<text, parser, ret, cfg, out, ret2, out2, nops, call, query, found,
                   visited, printer>>

NextPure ==
    \/ CallToStr
    \/ RepeatToStr
    \/ CallSearch
    \/ RepeatSearch

SpecPure == InitPure /\ [][NextPure]_vars

ScanAlphabet == {"(", ")", " ", "\"", "'", "\\", "a"}

InitScan ==
    /\ pc = "start"
    /\ text = <<>>
    /\ parser = ParserStart(<<>>)
    /\ cfg = DefaultCfg
    /\ printer = NoPrinter
    /\ ret = Pending
    /\ out = <<>>
    /\ ret2 = Pending
    /\ out2 = <<>>
    /\ obj = NoTree
    /\ nops = 0
    /\ call = NoCall
    /\ query = NoQuery
    /\ found = <<>>
    /\ visited = <<>>
    /\ heap = NoHeap
    /\ found2 = <<>>

\* Sexp(text) is called: the locals of the scan are set.
StartParse ==
    /\ pc = "start"
    /\ \E t \in Texts(ScanAlphabet, MaxScanLen) :
         /\ text' = t
         /\ parser' = ParserStart(t)
    /\ pc' = "scan"
    /\ UNCHANGED <<ret, cfg, out, ret2, out2, obj, nops, call, query, found, visited,
                   heap, found2, printer>>

\* prettify_sexp(text, break_inc=bi) is called: the locals of the scan are set.
StartPrint ==
    /\ pc = "start"
    /\ \E t \in Texts(ScanAlphabet, MaxScanLen), bi \in BreakIncs :
         /\ text' = t
         /\ cfg' = [DefaultCfg EXCEPT !.op = "prettify_sexp", !.break_inc = bi]
         /\ printer' = PrinterStart(t, bi, DefaultCfg.spaces_per_level)
    /\ pc' = "print"
    /\ UNCHANGED <<parser, ret, out, ret2, out2, obj, nops, call, query, found, visited,
                   heap, found2>>

\* One iteration of the loop of prettify_sexp.
PrintIteration ==
    /\ pc = "print"
    /\ ~PrintDone(printer)
    /\ printer' = PrintStep(printer)
    /\ UNCHANGED <<pc, text, parser, ret, cfg, out, ret2, out2, obj, nops, call, query,
                   found, visited, heap, found2>>

\* The loop has ended: return ''.join(result)
PrintFinish ==
    /\ pc = "print"
    /\ PrintDone(printer)
    /\ out' = printer.result
    /\ pc' = "printed"
    /\ UNCHANGED <<text, parser, ret, cfg, ret2, out2, obj, nops, call, query, found,
                   visited, heap, found2, printer>>

NextScan ==
    \/ StartParse
    \/ StartPrint
    \/ Escape
    \/ OpenSingle
    \/ OpenDouble
    \/ CloseSingle
    \/ CloseDouble
    \/ InQuoteChar
    \/ OpenParen
    \/ CloseParen
    \/ Space
    \/ Other
    \/ Finish
    \/ PrintIteration
    \/ PrintFinish

\* One iteration of the loop of Sexp.__init__, whichever branch it takes.
ParseIteration ==
    \/ Escape
    \/ OpenSingle
    \/ OpenDouble
    \/ CloseSingle
    \/ CloseDouble
    \/ InQuoteChar
    \/ OpenParen
    \/ CloseParen
    \/ Space
    \/ Other

\* The condition of the while loop of Sexp.__init__, and of prettify_sexp.
ParseLoops == pc = "scan" /\ ~ScanDone(parser)
PrintLoops == pc = "print" /\ ~PrintDone(printer)

\* Weak fairness of the two loops, with the enabling condition of an
\* iteration written as the loop's own condition: a loop whose condition
\* holds from some point on runs its next iteration.
SpecScan ==
    /\ InitScan
    /\ [][NextScan]_vars
    /\ ([]<>(~ParseLoops) \/ []<><<ParseIteration>>_vars)
    /\ ([]<>(~PrintLoops) \/ []<><<PrintIteration>>_vars)

\* C28: every iteration of the parser's loop moves its index forward by one
\* or two, every iteration of the pretty-printer's loop moves its index
\* forward by at least one, neither index passes the end of the text, and
\* the index of each scan reaches the end of the text.
ScansTerminate ==
    /\ [][(pc = "scan" /\ pc' = "scan") =>
             /\ parser'.i \in {parser.i + 1, parser.i + 2}
             /\ parser'.i <= Len(parser.s_expr)]_vars
    /\ [][(pc = "print" /\ pc' = "print") =>
             /\ printer'.i > printer.i
             /\ printer'.i <= Len(printer.sexp)]_vars
    /\ [](ParseLoops => ParseStep(parser).i \in {parser.i + 1, parser.i + 2})
    /\ [](PrintLoops => PrintStep(printer).i > printer.i)
    /\ (pc = "scan") ~> ScanDone(parser)
    /\ (pc = "print") ~> PrintDone(printer)

\* C28 witness: the pretty-printer has just skipped a run of two spaces
\* after an opening parenthesis in one iteration.
ScansTerminateWitness ==
    /\ pc = "print"
    /\ Len(text) >= 3
    /\ text[1] = "(" /\ text[2] = " " /\ text[3] = " "
    /\ printer.i = 3
    /\ printer.result = <<"(">>

(***************************************************************************)
(* Parsing a text and parsing its pretty-printed form.                     *)
(***************************************************************************)
\* Every quote of the text is closed: Sexp(text) does not raise ValueError.
QuotesTerminated(s) == ~InQuote(ParseAll(ParserStart(s)))

\* C29: for a text whose quotes are terminated, and whatever break_inc and
\* spaces_per_level, Sexp(prettify_sexp(text)) is equal to Sexp(text).
PrettifyKeepsStructure ==
    (pc = "printed" /\ QuotesTerminated(text)) => SexpOfText(out) = SexpOfText(text)

(***************************************************************************)
(* The pruned traversal of an absolute key_path search against a traversal *)
(* of the whole tree.                                                      *)
(***************************************************************************)
\* A key_path search for a pattern that starts with a slash, with or without
\* max_depth.
AbsolutePatternSearch ==
    /\ pc = "searched"
    /\ query.search_type = "key_path"
    /\ query.pattern.v # <<>>
    /\ query.pattern.v[1] = "/"

\* The path is within max_depth, when max_depth is given.
WithinDepth(p) == ~query.max_depth.some \/ Len(p) < query.max_depth.d

\* The list at the path is one a traversal of the whole tree keeps: its full
\* KeyPath is the keys of the pattern.
FullKeyPathMatch(p) == WithinDepth(p) /\ KeyPathOf(obj, p) = PatternKeys(query.pattern)

\* C30: the result of an absolute key_path search is, as an ordered list,
\* what a visit of every non-empty list of the tree in pre-order keeps when
\* it keeps the lists whose full KeyPath is the split pattern (within
\* max_depth when one is given); no list the search left unprocessed is one
\* of them.
PruningLosesNoMatch ==
    AbsolutePatternSearch =>
      LET all == NonEmptyListPaths(obj, <<>>)
      IN /\ found = MatchesAt(obj, SelectSeq(all, FullKeyPathMatch))
         /\ \A p \in Range(all) \ Range(visited) : ~FullKeyPathMatch(p)

\* C30 witness: an absolute search for one key, without max_depth, returned
\* the root and processed none of the non-empty lists below it.
PruningLosesNoMatchWitness ==
    /\ AbsolutePatternSearch
    /\ query.max_depth = NoDepth
    /\ Len(found) = 1
    /\ found[1].path = <<>>
    /\ visited = << <<>> >>
    /\ Len(NonEmptyListPaths(obj, <<>>)) >= 3

(***************************************************************************)
(* A relative key_path search for one key against a value search.          *)
(***************************************************************************)
\* The first element of every non-empty list of the tree is a string.
FirstsAreStrings(tree) ==
    \A p \in Range(NonEmptyListPaths(tree, <<>>)) : Follow(tree, p).v[1].t = "str"

\* The pattern is a string without a slash: one key, relative.
SingleKey(pattern) ==
    pattern.t = "str" /\ \A k \in 1..Len(pattern.v) : pattern.v[k] # "/"

\* A key_path search or a value search for one key, on a tree whose lists
\* all start with a string.
SingleKeySearch ==
    /\ pc = "searched"
    /\ query.search_type \in {"key_path", "value"}
    /\ SingleKey(query.pattern)
    /\ FirstsAreStrings(obj)

\* C31: on a tree whose non-empty lists all start with a string, a key_path
\* search for a single key without a slash and a value search for the same
\* string return the same ordered list of (path, subtree) pairs, with the
\* same max_depth.
KeyPathIsValueSearch ==
    SingleKeySearch =>
      /\ search(obj, query.pattern, "key_path", query.max_depth) = found
      /\ search(obj, query.pattern, "value", query.max_depth) = found

\* C31 witness: a key_path search for one key, without max_depth, returned
\* two lists, one of them below the root, and left out another list.
KeyPathIsValueSearchWitness ==
    /\ SingleKeySearch
    /\ query.search_type = "key_path"
    /\ query.max_depth = NoDepth
    /\ Len(found) >= 2
    /\ Len(found) < Len(NonEmptyListPaths(obj, <<>>))
    /\ \E k \in 1..Len(found) : found[k].path # <<>>

====
